---- MODULE Spec2Model ----
(***************************************************************************)
(* Model of the Axpert inverter communication core                         *)
(* (custom_components/axpert_inverter/axpert.py): the USB transport        *)
(* USBConnection, the checksum AxpertInverter._get_crc and the             *)
(* command/response cycle AxpertInverter.send_command, run by several      *)
(* threads against one AxpertInverter handle.                              *)
(*                                                                         *)
(* Bytes are integers 0..255, byte strings and texts are sequences of      *)
(* them.  Time is counted in ticks of 500 ms.                              *)
(***************************************************************************)
EXTENDS Integers, Sequences, FiniteSets, TLC

(***************************************************************************)
(* Bounds of the model.                                                    *)
(***************************************************************************)
NumCallers == 2
MaxCalls == 2
MaxTime == 5
MaxLeaks == 1
MaxMethodCalls == 1

(***************************************************************************)
(* Byte values the code names.                                             *)
(***************************************************************************)
CR == 13
LF == 10
NUL == 0
LPAREN == 40

(***************************************************************************)
(* Bit arithmetic on the 16-bit register: a ^ b.  The set constructors     *)
(* make a value of each operand before it is read bit by bit.              *)
(***************************************************************************)
XorBit(a, b, w) == ((((a \div w) % 2) + ((b \div w) % 2)) % 2) * w

XorBits(a, b) ==
      XorBit(a, b, 1)     + XorBit(a, b, 2)     + XorBit(a, b, 4)
    + XorBit(a, b, 8)     + XorBit(a, b, 16)    + XorBit(a, b, 32)
    + XorBit(a, b, 64)    + XorBit(a, b, 128)   + XorBit(a, b, 256)
    + XorBit(a, b, 512)   + XorBit(a, b, 1024)  + XorBit(a, b, 2048)
    + XorBit(a, b, 4096)  + XorBit(a, b, 8192)  + XorBit(a, b, 16384)
    + XorBit(a, b, 32768)

BitXor(a, b) == CHOOSE r \in {XorBits(x, y) : x \in {a}, y \in {b}} : TRUE

(***************************************************************************)
(* _get_crc: CRC16-XMODEM, register 16 bits wide, then the two result      *)
(* bytes that equal '(' , CR or LF are incremented.                        *)
(***************************************************************************)
\* a variant that shifts without ever subtracting the polynomial
CrcRoundNoPoly(crc) == (crc * 2) % 65536

\* one round of `for _ in range(8)`
CrcRound(crc) ==
    IF crc >= 32768
    THEN XorBits((crc * 2) % 65536, 4129)
    ELSE (crc * 2) % 65536

CrcShift(crc) == CHOOSE r \in {CrcRound(x) : x \in {crc}} : TRUE

\* crc ^= byte << 8, then the eight rounds
CrcByte(crc, byte) ==
    CrcShift(CrcShift(CrcShift(CrcShift(
    CrcShift(CrcShift(CrcShift(CrcShift(BitXor(crc, byte * 256)))))))))

\* the outer loop, `for byte in da`, over the bytes lo..hi of da: the
\* first half of the range, then the second half from the register the
\* first half left
RECURSIVE CrcRange(_, _, _, _)
CrcRange(crc, da, lo, hi) ==
    IF lo > hi THEN crc
    ELSE IF lo = hi THEN CrcByte(crc, da[lo])
    ELSE CHOOSE r \in {CrcRange(x, da, ((lo + hi) \div 2) + 1, hi) :
                         x \in {CrcRange(crc, da, lo, (lo + hi) \div 2)}} : TRUE

CrcRegister(da) ==
    CHOOSE r \in {CrcRange(0, d, 1, Len(d)) : d \in {da}} : TRUE

\* a variant that leaves every byte as it is
CrcEscapeNone(b) == b

CrcEscape(b) == IF b \in {LPAREN, CR, LF} THEN b + 1 ELSE b

get_crc(da) ==
    CHOOSE r \in {<<CrcEscape((crc \div 256) % 256), CrcEscape(crc % 256)>> :
                     crc \in {CrcRegister(da)}} : TRUE

(***************************************************************************)
(* Program constants of send_command; the times are in ticks of 500 ms.  *)
(***************************************************************************)
MinSpacing == 1
NakWait == 2
Backoff == 1
RetryBudget == 2
ChunkSize == 8

(***************************************************************************)
(* Texts and byte strings.                                                 *)
(***************************************************************************)
ACK == <<65, 67, 75>>
NAK == <<78, 65, 75>>
PAREN_ACK == <<LPAREN>> \o ACK
PAREN_NAK == <<LPAREN>> \o NAK
CmdQMOD == <<81, 77, 79, 68>>
Commands == {CmdQMOD}

Contains(s, b) == \E i \in 1..Len(s) : s[i] = b
Take(s, n) == SubSeq(s, 1, n)
Drop(s, n) == SubSeq(s, n + 1, Len(s))

(***************************************************************************)
(* USBConnection.write: the frame goes out in chunks of 8 bytes, all of    *)
(* them through the interrupt OUT endpoint when one was discovered, all of *)
(* them as SET_REPORT control transfers otherwise.  A transfer that raises *)
(* ends the write; failAt = 0 means that no transfer raises.               *)
(***************************************************************************)
\* a variant that pads the last chunk with NUL bytes to a full report
RECURSIVE WriteChunksPadded(_)
WriteChunksPadded(data) ==
    IF Len(data) = 0 THEN <<>>
    ELSE IF Len(data) <= ChunkSize
    THEN <<data \o [i \in 1..(ChunkSize - Len(data)) |-> 0]>>
    ELSE <<Take(data, ChunkSize)>> \o WriteChunksPadded(Drop(data, ChunkSize))

RECURSIVE WriteChunks(_)
WriteChunks(data) ==
    IF Len(data) = 0 THEN <<>>
    ELSE IF Len(data) <= ChunkSize THEN <<data>>
    ELSE <<Take(data, ChunkSize)>> \o WriteChunks(Drop(data, ChunkSize))

WritePath(ep_out) == IF ep_out THEN "interrupt" ELSE "control"

write(ep_out, data, failAt) ==
    LET chunks == WriteChunks(data)
        failed == failAt >= 1 /\ failAt <= Len(chunks)
        n      == IF failed THEN failAt - 1 ELSE Len(chunks)
    IN  [ok   |-> ~failed,
         sent |-> [i \in 1..n |-> [via |-> WritePath(ep_out), data |-> chunks[i]]]]

(***************************************************************************)
(* USBConnection.read_until.  A script is what the IN endpoint does on the *)
(* successive ep_in.read(8, 200) calls: errno 0 delivers data (at most 8   *)
(* bytes), any other errno is a USBError, which the loop swallows.  The    *)
(* end of the script is the overall timeout: the device delivers nothing   *)
(* more.  The loop stops as soon as the accumulated bytes hold the         *)
(* terminator and returns ALL the accumulated bytes.                       *)
(***************************************************************************)
Data(d) == [errno |-> 0, data |-> d]
UsbTimeout == [errno |-> 110, data |-> <<>>]
UsbIoError == [errno |-> 5, data |-> <<>>]

\* a variant that gives up on a read error other than the timeout, errno
\* 110, and hands back the marker ReadFailed
ReadFailed == <<258>>

RECURSIVE ReadLoopFailing(_, _, _)
ReadLoopFailing(res, script, terminator) ==
    IF script = <<>> THEN res
    ELSE IF Head(script).errno = 110
         THEN ReadLoopFailing(res, Tail(script), terminator)
         ELSE IF Head(script).errno # 0 THEN ReadFailed
         ELSE LET acc == res \o Head(script).data
              IN  IF Contains(acc, terminator) THEN acc
                  ELSE ReadLoopFailing(acc, Tail(script), terminator)

RECURSIVE ReadLoop(_, _, _)
ReadLoop(res, script, terminator) ==
    IF script = <<>> THEN res
    ELSE IF Head(script).errno # 0
         THEN ReadLoop(res, Tail(script), terminator)
         ELSE LET acc == res \o Head(script).data
              IN  IF Contains(acc, terminator) THEN acc
                  ELSE ReadLoop(acc, Tail(script), terminator)

read_until(ep_in, script, terminator) ==
    IF ~ep_in THEN <<>> ELSE ReadLoop(<<>>, script, terminator)

(***************************************************************************)
(* USBConnection.__enter__.  usb is what the USB stack does on this        *)
(* acquisition.  A failed detach and a failed set_configuration are        *)
(* logged and the acquisition goes on; a device not found, a failed        *)
(* claim, an unreadable active configuration and a missing IN endpoint     *)
(* raise.  The last two raise AFTER claim_interface succeeded, and an      *)
(* exception leaving __enter__ does not run __exit__.                      *)
(***************************************************************************)
UsbBehaviours ==
    [found : BOOLEAN, driver_active : BOOLEAN, detach_ok : BOOLEAN,
     config_ok : BOOLEAN, claim_ok : BOOLEAN, cfg_readable : BOOLEAN,
     has_in : BOOLEAN, has_out : BOOLEAN]

NoError == "none"

\* a variant that logs a failed claim and goes on without the interface
enter_ignoring_claim(usb) ==
    IF ~usb.found
    THEN [error |-> "DeviceNotFound", claimed |-> FALSE,
          ep_in |-> FALSE, ep_out |-> FALSE]
    ELSE IF ~usb.cfg_readable
    THEN [error |-> "ConfigUnreadable", claimed |-> usb.claim_ok,
          ep_in |-> FALSE, ep_out |-> FALSE]
    ELSE IF ~usb.has_in
    THEN [error |-> "NoInEndpoint", claimed |-> usb.claim_ok,
          ep_in |-> FALSE, ep_out |-> usb.has_out]
    ELSE [error |-> NoError, claimed |-> usb.claim_ok,
          ep_in |-> TRUE, ep_out |-> usb.has_out]

enter(usb) ==
    IF ~usb.found
    THEN [error |-> "DeviceNotFound", claimed |-> FALSE,
          ep_in |-> FALSE, ep_out |-> FALSE]
    ELSE IF ~usb.claim_ok
    THEN [error |-> "ClaimFailed", claimed |-> FALSE,
          ep_in |-> FALSE, ep_out |-> FALSE]
    ELSE IF ~usb.cfg_readable
    THEN [error |-> "ConfigUnreadable", claimed |-> TRUE,
          ep_in |-> FALSE, ep_out |-> FALSE]
    ELSE IF ~usb.has_in
    THEN [error |-> "NoInEndpoint", claimed |-> TRUE,
          ep_in |-> FALSE, ep_out |-> usb.has_out]
    ELSE [error |-> NoError, claimed |-> TRUE,
          ep_in |-> TRUE, ep_out |-> usb.has_out]

(***************************************************************************)
(* send_command, lines 216-304: what one attempt makes of the bytes that   *)
(* read_until returned.  Every result carries crcs, the number of times    *)
(* _get_crc ran on received bytes, and path, the branch that chose the     *)
(* payload bytes.                                                          *)
(***************************************************************************)
StripCR(response) ==
    IF Len(response) > 0 /\ response[Len(response)] = CR
    THEN Take(response, Len(response) - 1)
    ELSE response

\* a variant that knows only the parenthesised acknowledgement
IsAckParenOnly(r) == r = PAREN_ACK

IsAck(r) == r = PAREN_ACK \/ r = ACK

\* a variant that knows only the bare negative acknowledgement
IsNakBareOnly(r) == r = NAK

IsNak(r) == r = PAREN_NAK \/ r = NAK

\* A-Z, 0-9, space, '(', '.', '-', ':'
valid_chars == (65..90) \cup (48..57) \cup {32, 40, 46, 45, 58}

AllValid(s) == \A i \in 1..Len(s) : s[i] \in valid_chars

\* a variant of the filter that lets every candidate through
IsCandidateAlways(candidate_data) == TRUE

\* `if all(b in valid_chars for b in candidate_data)`
IsCandidate(candidate_data) == AllValid(candidate_data)

\* The bounded quantifiers of SmartScan, Extract and process_response make a
\* value of what they bind before it is used.
RECURSIVE SmartScan(_, _, _)
SmartScan(response, i, crcs) ==
    IF i < 1 THEN [found |-> FALSE, data |-> <<>>, crcs |-> crcs]
    ELSE CHOOSE r \in
             {IF IsCandidate(candidate_data)
              THEN IF get_crc(candidate_data) = SubSeq(response, i + 1, i + 2)
                   THEN [found |-> TRUE, data |-> candidate_data,
                         crcs |-> crcs + 1]
                   ELSE SmartScan(response, i - 1, crcs + 1)
              ELSE SmartScan(response, i - 1, crcs) :
                  candidate_data \in {Take(response, i)}} : TRUE

\* a variant that scans before it tries the standard split
ExtractScanFirst(response) ==
    IF Len(response) > 2
    THEN CHOOSE r \in
             {IF scan.found
              THEN [raw |-> scan.data, path |-> "smart", crcs |-> scan.crcs]
              ELSE [raw |-> Take(response, Len(response) - 2),
                    path |-> "fallback", crcs |-> scan.crcs] :
                  scan \in {SmartScan(response, Len(response) - 2, 0)}} : TRUE
    ELSE [raw |-> response, path |-> "short", crcs |-> 0]

Extract(response) ==
    IF Len(response) > 2
    THEN LET std_data         == Take(response, Len(response) - 2)
             std_crc_received == Drop(response, Len(response) - 2)
         IN  IF get_crc(std_data) = std_crc_received
             THEN [raw |-> std_data, path |-> "standard", crcs |-> 1]
             ELSE CHOOSE r \in
                      {IF scan.found
                       THEN [raw |-> scan.data, path |-> "smart",
                             crcs |-> scan.crcs]
                       ELSE [raw |-> std_data, path |-> "fallback",
                             crcs |-> scan.crcs] :
                           scan \in {SmartScan(response, Len(response) - 2, 1)}} :
                      TRUE
    ELSE [raw |-> response, path |-> "short", crcs |-> 0]

\* bytes.decode('iso-8859-1'): every byte is the character of the same code
\* point, so no byte is undecodable and none is dropped.
DecodeLatin1(raw) == [i \in 1..Len(raw) |-> raw[i]]

\* s.replace(ch, '')
RemoveAll(s, ch) == SelectSeq(s, LAMBDA b : b # ch)

\* str.strip() with no argument: the characters below 256 for which
\* str.isspace() holds.
Whitespace == (9..13) \cup (28..32) \cup {133, 160}

\* the text from its first character that is no whitespace on
LStrip(s) ==
    LET kept == {i \in 1..Len(s) : s[i] \notin Whitespace}
    IN  IF kept = {} THEN <<>>
        ELSE Drop(s, (CHOOSE i \in kept : \A j \in kept : i <= j) - 1)

\* the text up to its last character that is no whitespace
RStrip(s) ==
    LET kept == {i \in 1..Len(s) : s[i] \notin Whitespace}
    IN  IF kept = {} THEN <<>>
        ELSE Take(s, CHOOSE i \in kept : \A j \in kept : i >= j)

Strip(s) == RStrip(LStrip(s))

\* s[s.find('(')+1:] when '(' occurs in s
AfterParen(s) ==
    IF Contains(s, LPAREN)
    THEN Drop(s, CHOOSE i \in 1..Len(s) :
                    s[i] = LPAREN /\ \A j \in 1..(i - 1) : s[j] # LPAREN)
    ELSE s

Decode(raw_data) == AfterParen(Strip(RemoveAll(DecodeLatin1(raw_data), NUL)))

Returned(text, path, crcs) ==
    [kind |-> "return", text |-> text, error |-> NoError,
     path |-> path, crcs |-> crcs]

Raised(error) ==
    [kind |-> "raise", text |-> <<>>, error |-> error,
     path |-> "none", crcs |-> 0]

NakRetry ==
    [kind |-> "continue", text |-> <<>>, error |-> NoError,
     path |-> "none", crcs |-> 0]

NakOutcome(attempt) ==
    IF attempt = 0 THEN NakRetry ELSE Raised("NotSupported")

\* a variant without the empty check
IsEmptyResponseNever(response) == FALSE

\* `if not response`
IsEmptyResponse(response) == response = <<>>

\* a variant that raises when no split of the response checks
process_response_strict(response, attempt) ==
    IF IsEmptyResponse(response) THEN Raised("NoResponse")
    ELSE LET stripped == StripCR(response)
         IN  IF IsAck(stripped) THEN Returned(ACK, "ack", 0)
             ELSE IF IsNak(stripped) THEN NakOutcome(attempt)
             ELSE CHOOSE o \in
                      {IF ex.path = "fallback" THEN Raised("CrcMismatch")
                       ELSE Returned(Decode(ex.raw), ex.path, ex.crcs) :
                           ex \in {Extract(stripped)}} : TRUE

process_response(response, attempt) ==
    IF IsEmptyResponse(response) THEN Raised("NoResponse")
    ELSE LET stripped == StripCR(response)
         IN  IF IsAck(stripped) THEN Returned(ACK, "ack", 0)
             ELSE IF IsNak(stripped) THEN NakOutcome(attempt)
             ELSE CHOOSE o \in
                      {Returned(Decode(ex.raw), ex.path, ex.crcs) :
                           ex \in {Extract(stripped)}} : TRUE

(***************************************************************************)
(* What the inverter puts on the IN endpoint in answer to one frame.       *)
(***************************************************************************)
Framed(d) == d \o get_crc(d) \o <<CR>>
ModeB == <<LPAREN, 66>>
Flags == <<LPAREN, 48, 48, 49, 49, 48, 49, 49, 48>>

DeviceScripts ==
    { <<>>,
      <<UsbTimeout, UsbIoError>>,
      <<Data(PAREN_ACK \o <<CR>>)>>,
      <<Data(ACK \o <<CR>>)>>,
      <<Data(PAREN_NAK \o <<CR>>)>>,
      <<Data(NAK \o <<CR>>)>>,
      <<Data(Framed(PAREN_NAK))>>,
      <<Data(PAREN_NAK \o <<CR, NUL, NUL, NUL>>)>>,
      <<UsbTimeout, Data(Framed(ModeB))>>,
      <<Data(ModeB \o <<1, 2, CR>>)>>,
      <<Data(ModeB \o get_crc(ModeB) \o <<NUL, NUL, NUL, CR>>)>>,
      <<Data(Take(Framed(Flags), ChunkSize)), UsbIoError,
        Data(Drop(Framed(Flags), ChunkSize))>>,
      <<Data(ModeB \o get_crc(ModeB)), UsbTimeout>> }

(***************************************************************************)
(* State.                                                                  *)
(***************************************************************************)
Callers == 1..NumCallers
NoCaller == 0

VARIABLES
    lock,               \* self._lock: the thread holding it, or NoCaller
    last_command_time,  \* self._last_command_time
    now,                \* time.time()
    claimed,            \* claims of USB interface 0 made and not released
    pc,                 \* where each thread is in send_command
    calls,              \* send_command calls made so far, by all threads
    command,            \* the command argument of the running call
    attempt,            \* the loop variable of `for attempt in range(2)`
    wake,               \* when the running time.sleep returns
    resume,             \* where the thread goes on after the sleep
    ser,                \* the USBConnection of the running attempt
    wire,               \* chunks the running attempt has written
    response,           \* what read_until returned to the running attempt
    pending,            \* how the running attempt leaves the try statement
    written,            \* frames the running call has written completely
    history,            \* how each attempt of the running call ended
    attemptEnd,         \* when the latest attempt of the call ended
    lastEnd,            \* when the latest attempt on the handle ended
    failed,             \* send_command calls on the handle that raised
    api,                \* the method of the handle each thread has called
    fn,                 \* the function applied to arg outside send_command
    arg,                \* the argument of a function applied on its own
    out,                \* what the function returned
    again,              \* what it returned when applied once more
    coordinator,        \* the AxpertDataUpdateCoordinator and its running poll
    sensor              \* an AxpertEnergySensor and the clock it reads

handleVars ==
    <<lock, last_command_time, now, claimed, pc, calls, command, attempt,
      wake, resume, ser, wire, response, pending, written, history,
      attemptEnd, lastEnd, failed, api>>

pureVars == <<fn, arg, out, again>>

\* the objects of the Home Assistant side of the integration
haVars == <<coordinator, sensor>>

vars == <<handleVars, pureVars, haVars>>

NoConnection == [claimed |-> FALSE, ep_in |-> FALSE, ep_out |-> FALSE]

\* the local `response` before read_until has returned in this attempt: no
\* byte string, since 256 is no byte
NotRead == <<256>>

NoOutcome ==
    [kind |-> "none", text |-> <<>>, error |-> NoError,
     path |-> "none", crcs |-> 0]

\* what a method of the handle gives its caller
MethodReturned(value) == [kind |-> "return", value |-> value, error |-> NoError]
MethodRaised(error) == [kind |-> "raise", value |-> <<>>, error |-> error]
NotReturned == [kind |-> "none", value |-> <<>>, error |-> NoError]

\* the thread is in no method that wraps send_command
NoApi ==
    [method |-> "none", sent |-> <<>>, returned |-> NoOutcome,
     result |-> NotReturned]

\* no function has been applied on its own
NoArg == [type |-> "none", value |-> <<>>]
NoResult == <<>>

\* the value None, which is no text
None == <<257>>

\* AxpertDataUpdateCoordinator.__init__: no static data yet, no poll made.
\* sent is the commands the running poll has handed to send_command, data
\* its local `data`, result how it ended.
InitCoordinator ==
    [firmware_version |-> None, model_id |-> None, model_name |-> None,
     pc |-> "idle", polls |-> 0, sent |-> <<>>,
     data |-> [k \in {} |-> 0], result |-> "none"]

\* AxpertEnergySensor.__init__ for the source key: _state = 0.0, no
\* reference time and no reference power (the empty tuple is None, <<v>> is
\* the value v).  clock is dt_util.utcnow() in seconds, state is in units
\* of half a watt-second (1 kWh = 7,200,000 units), so that the trapezoid
\* (last_power + current_power) / 2 * seconds is an integer.  data is the
\* coordinator.data of the latest update, time_diff_seconds the local of
\* that name in the latest run of the handler.
InitSensor(source_key) ==
    [source_key |-> source_key, added |-> FALSE, state |-> 0,
     last_update_time |-> <<>>, last_power |-> <<>>,
     clock |-> 0, updates |-> 0, data |-> [k \in {} |-> 0],
     time_diff_seconds |-> <<>>]

InitHa ==
    /\ coordinator = InitCoordinator
    /\ sensor = InitSensor("pv_power")

\* AxpertInverter.__init__; no thread has called yet.  The clock starts at a
\* reading that is at least the spacing away from the initial timestamp 0.
InitHandle ==
    /\ lock = NoCaller
    /\ last_command_time = 0
    /\ now = MinSpacing
    /\ claimed = 0
    /\ pc = [c \in Callers |-> "idle"]
    /\ calls = 0
    /\ command = [c \in Callers |-> <<>>]
    /\ attempt = [c \in Callers |-> 0]
    /\ wake = [c \in Callers |-> 0]
    /\ resume = [c \in Callers |-> "idle"]
    /\ ser = [c \in Callers |-> NoConnection]
    /\ wire = [c \in Callers |-> <<>>]
    /\ response = [c \in Callers |-> NotRead]
    /\ pending = [c \in Callers |-> NoOutcome]
    /\ written = [c \in Callers |-> 0]
    /\ history = [c \in Callers |-> <<>>]
    /\ attemptEnd = [c \in Callers |-> 0]
    /\ lastEnd = 0
    /\ failed = 0
    /\ api = [c \in Callers |-> NoApi]

Init ==
    /\ InitHandle
    /\ InitHa
    /\ fn = "none"
    /\ arg = NoArg
    /\ out = NoResult
    /\ again = NoResult

(***************************************************************************)
(* str.encode(): UTF-8, for the code points below 0x800.                   *)
(***************************************************************************)
RECURSIVE Utf8Encode(_)
Utf8Encode(text) ==
    IF text = <<>> THEN <<>>
    ELSE (IF Head(text) < 128
          THEN <<Head(text)>>
          ELSE <<192 + (Head(text) \div 64), 128 + (Head(text) % 64)>>)
         \o Utf8Encode(Tail(text))

\* a variant that sends the two bytes of the register as they are
full_command_unescaped(cmd) ==
    LET da  == Utf8Encode(cmd)
        crc == CrcRegister(da)
    IN  da \o <<crc \div 256, crc % 256, CR>>

\* full_command = command.encode() + crc + b'\r'
full_command(cmd) == Utf8Encode(cmd) \o get_crc(Utf8Encode(cmd)) \o <<CR>>

(***************************************************************************)
(* send_command, one action per step a thread takes.                       *)
(***************************************************************************)
\* a variant whose acquire never blocks
LockFreeIgnored == TRUE

\* threading.Lock: acquire blocks while another thread holds the lock
LockFree == lock = NoCaller

\* a variant that takes the first attempt for the final one
IsFinalAttemptFirst(a) == a = 0

\* `if attempt == 1` of the except clause
IsFinalAttempt(a) == a = 1

\* a variant in which only an exception leaves the loop
LeavesLoopOnRaise(outcome) == outcome.kind = "raise"

\* return and raise leave the for loop, continue goes to its next round
LeavesLoop(outcome) == outcome.kind # "continue"

\* a variant that stamps the time after a return only
UpdatesTimestampOnReturn(outcome) == outcome.kind = "return"

\* the finally clause runs on every way out of the try statement
UpdatesTimestamp(outcome) == TRUE

\* how an attempt ended, for the history of the call: a return as "ack" or
\* "payload", a negative acknowledgement as "nak", an empty read as
\* "empty", every other exception as "fail"
HowEnded(outcome) ==
    IF outcome.kind = "return"
    THEN IF outcome.path = "ack" THEN "ack" ELSE "payload"
    ELSE IF outcome.kind = "continue" \/ outcome.error = "NotSupported"
    THEN "nak"
    ELSE IF outcome.error = "NoResponse" THEN "empty"
    ELSE "fail"

EndAttempt(c, outcome) ==
    /\ history' = [history EXCEPT ![c] = Append(@, HowEnded(outcome))]
    /\ attemptEnd' = [attemptEnd EXCEPT ![c] = now]
    /\ lastEnd' = now

\* a variant of the loop that leaves the first round out once a call on
\* the handle has failed
FirstAttemptAfterFailure == IF failed > 0 THEN 1 ELSE 0

\* `for attempt in range(2)` starts at 0 in every call
FirstAttempt == 0

\* a thread enters send_command(cmd)
Call(c, cmd) ==
    /\ pc[c] = "idle"
    /\ calls < MaxCalls
    /\ calls' = calls + 1
    /\ pc' = [pc EXCEPT ![c] = "lock"]
    /\ command' = [command EXCEPT ![c] = cmd]
    /\ attempt' = [attempt EXCEPT ![c] = FirstAttempt]
    /\ ser' = [ser EXCEPT ![c] = NoConnection]
    /\ wire' = [wire EXCEPT ![c] = <<>>]
    /\ response' = [response EXCEPT ![c] = NotRead]
    /\ pending' = [pending EXCEPT ![c] = NoOutcome]
    /\ written' = [written EXCEPT ![c] = 0]
    /\ history' = [history EXCEPT ![c] = <<>>]
    /\ attemptEnd' = [attemptEnd EXCEPT ![c] = 0]
    /\ UNCHANGED <<lock, last_command_time, now, claimed, wake, resume,
                   lastEnd, failed>>
    /\ UNCHANGED pureVars
    /\ UNCHANGED haVars

\* a thread calls send_command(cmd) itself
SendCommand(c, cmd) ==
    /\ Call(c, cmd)
    /\ UNCHANGED api

\* with self._lock:
\* a variant that goes on to read the timestamp without taking the lock
AcquireNothing(c) ==
    /\ pc[c] = "lock"
    /\ pc' = [pc EXCEPT ![c] = "pace"]
    /\ UNCHANGED <<lock, last_command_time, now, claimed, calls, command,
                   attempt, wake, resume, ser, wire, response, pending,
                   written, history, attemptEnd, lastEnd>>
    /\ UNCHANGED <<failed, api>>
    /\ UNCHANGED pureVars
    /\ UNCHANGED haVars

Acquire(c) ==
    /\ pc[c] = "lock"
    /\ LockFree
    /\ lock' = c
    /\ pc' = [pc EXCEPT ![c] = "pace"]
    /\ UNCHANGED <<last_command_time, now, claimed, calls, command, attempt,
                   wake, resume, ser, wire, response, pending, written,
                   history, attemptEnd, lastEnd>>
    /\ UNCHANGED <<failed, api>>
    /\ UNCHANGED pureVars
    /\ UNCHANGED haVars

\* a variant that never finds the spacing too short
NeedsPacingNever(time_since_last) == FALSE

\* `if time_since_last < 0.5`
NeedsPacing(time_since_last) == time_since_last < MinSpacing

\* lines 189-191: sleep the rest of the spacing, once per call
Pace(c) ==
    /\ pc[c] = "pace"
    /\ LET time_since_last == now - last_command_time
       IN  IF NeedsPacing(time_since_last)
           THEN /\ wake' = [wake EXCEPT ![c] = now + (MinSpacing - time_since_last)]
                /\ resume' = [resume EXCEPT ![c] = "enter"]
                /\ pc' = [pc EXCEPT ![c] = "sleep"]
           ELSE /\ pc' = [pc EXCEPT ![c] = "enter"]
                /\ UNCHANGED <<wake, resume>>
    /\ UNCHANGED <<lock, last_command_time, now, claimed, calls, command,
                   attempt, ser, wire, response, pending, written, history,
                   attemptEnd, lastEnd>>
    /\ UNCHANGED <<failed, api>>
    /\ UNCHANGED pureVars
    /\ UNCHANGED haVars

\* a variant that gives the lock up when the sleep is over
SleepOutsideLock(c) ==
    /\ pc[c] = "sleep"
    /\ now >= wake[c]
    /\ pc' = [pc EXCEPT ![c] = resume[c]]
    /\ wake' = [wake EXCEPT ![c] = 0]
    /\ resume' = [resume EXCEPT ![c] = "idle"]
    /\ lock' = NoCaller
    /\ UNCHANGED <<last_command_time, now, claimed, calls, command, attempt,
                   ser, wire, response, pending, written, history,
                   attemptEnd, lastEnd>>
    /\ UNCHANGED <<failed, api>>
    /\ UNCHANGED pureVars
    /\ UNCHANGED haVars

\* time.sleep returns once the time asked for has passed
Sleep(c) ==
    /\ pc[c] = "sleep"
    /\ now >= wake[c]
    /\ pc' = [pc EXCEPT ![c] = resume[c]]
    /\ wake' = [wake EXCEPT ![c] = 0]
    /\ resume' = [resume EXCEPT ![c] = "idle"]
    /\ UNCHANGED <<lock, last_command_time, now, claimed, calls, command,
                   attempt, ser, wire, response, pending, written, history,
                   attemptEnd, lastEnd>>
    /\ UNCHANGED <<failed, api>>
    /\ UNCHANGED pureVars
    /\ UNCHANGED haVars

\* with USBConnection(timeout=5000) as ser: a fresh connection object, then
\* __enter__.  When __enter__ raises, the with statement never runs __exit__
\* and the except clause of send_command takes over.
Enter(c, usb) ==
    /\ pc[c] = "enter"
    /\ \E e \in {enter(usb)} :
           /\ (e.claimed /\ e.error # NoError) => claimed < MaxLeaks
           /\ ser' = [ser EXCEPT ![c] = [claimed |-> e.claimed,
                                         ep_in |-> e.ep_in,
                                         ep_out |-> e.ep_out]]
           /\ claimed' = IF e.claimed THEN claimed + 1 ELSE claimed
           /\ IF e.error = NoError
              THEN /\ pc' = [pc EXCEPT ![c] = "write"]
                   /\ pending' = [pending EXCEPT ![c] = NoOutcome]
                   /\ UNCHANGED <<history, attemptEnd, lastEnd>>
              ELSE /\ pc' = [pc EXCEPT ![c] = "except"]
                   /\ pending' = [pending EXCEPT ![c] = Raised(e.error)]
                   /\ EndAttempt(c, Raised(e.error))
    /\ wire' = [wire EXCEPT ![c] = <<>>]
    /\ response' = [response EXCEPT ![c] = NotRead]
    /\ UNCHANGED <<lock, last_command_time, now, calls, command, attempt,
                   wake, resume, written>>
    /\ UNCHANGED <<failed, api>>
    /\ UNCHANGED pureVars
    /\ UNCHANGED haVars

\* ser.write(full_command); the transfer number failAt raises (0: none does)
Write(c, failAt) ==
    /\ pc[c] = "write"
    /\ failAt \in 0..Len(WriteChunks(full_command(command[c])))
    /\ \E w \in {write(ser[c].ep_out, full_command(command[c]), failAt)} :
           /\ wire' = [wire EXCEPT ![c] = w.sent]
           /\ IF w.ok
              THEN /\ written' = [written EXCEPT ![c] = @ + 1]
                   /\ pc' = [pc EXCEPT ![c] = "read"]
                   /\ UNCHANGED pending
              ELSE /\ pending' = [pending EXCEPT ![c] = Raised("WriteFailed")]
                   /\ pc' = [pc EXCEPT ![c] = "exit"]
                   /\ UNCHANGED written
    /\ UNCHANGED <<lock, last_command_time, now, claimed, calls, command,
                   attempt, wake, resume, ser, response, history, attemptEnd, lastEnd>>
    /\ UNCHANGED <<failed, api>>
    /\ UNCHANGED pureVars
    /\ UNCHANGED haVars

\* response = ser.read_until(b'\r')
Read(c, script) ==
    /\ pc[c] = "read"
    /\ response' = [response EXCEPT ![c] = read_until(ser[c].ep_in, script, CR)]
    /\ pc' = [pc EXCEPT ![c] = "exit"]
    /\ UNCHANGED <<lock, last_command_time, now, claimed, calls, command,
                   attempt, wake, resume, ser, wire, pending, written,
                   history, attemptEnd, lastEnd>>
    /\ UNCHANGED <<failed, api>>
    /\ UNCHANGED pureVars
    /\ UNCHANGED haVars

\* USBConnection.__exit__: release_interface, then the exception of the with
\* body, if there is one, goes on to the except clause
Exit(c) ==
    /\ pc[c] = "exit"
    /\ claimed' = IF ser[c].claimed THEN claimed - 1 ELSE claimed
    \* the connection object is dropped when the with statement ends
    /\ ser' = [ser EXCEPT ![c] = NoConnection]
    /\ wire' = [wire EXCEPT ![c] = <<>>]
    /\ IF pending[c].kind = "raise"
       THEN /\ pc' = [pc EXCEPT ![c] = "except"]
            /\ EndAttempt(c, pending[c])
       ELSE /\ pc' = [pc EXCEPT ![c] = "process"]
            /\ UNCHANGED <<history, attemptEnd, lastEnd>>
    /\ UNCHANGED <<lock, last_command_time, now, calls, command, attempt,
                   wake, resume, response, pending, written>>
    /\ UNCHANGED <<failed, api>>
    /\ UNCHANGED pureVars
    /\ UNCHANGED haVars

\* lines 216-304: interpret the response
Process(c) ==
    /\ pc[c] = "process"
    /\ \E o \in {process_response(response[c], attempt[c])} :
           /\ pending' = [pending EXCEPT ![c] = o]
           /\ IF o.kind = "return"
              THEN /\ pc' = [pc EXCEPT ![c] = "finally"]
                   /\ EndAttempt(c, o)
                   /\ UNCHANGED <<wake, resume>>
              ELSE IF o.kind = "continue"
              THEN \* time.sleep(1); continue
                   /\ wake' = [wake EXCEPT ![c] = now + NakWait]
                   /\ resume' = [resume EXCEPT ![c] = "finally"]
                   /\ pc' = [pc EXCEPT ![c] = "sleep"]
                   /\ EndAttempt(c, o)
              ELSE /\ pc' = [pc EXCEPT ![c] = "except"]
                   /\ EndAttempt(c, o)
                   /\ UNCHANGED <<wake, resume>>
    /\ UNCHANGED <<lock, last_command_time, now, claimed, calls, command,
                   attempt, ser, wire, response, written>>
    /\ UNCHANGED <<failed, api>>
    /\ UNCHANGED pureVars
    /\ UNCHANGED haVars

\* except Exception as e: re-raise on the final attempt, else sleep 0.5 s
Except(c) ==
    /\ pc[c] = "except"
    /\ IF IsFinalAttempt(attempt[c])
       THEN /\ pc' = [pc EXCEPT ![c] = "finally"]
            /\ UNCHANGED <<pending, wake, resume>>
       ELSE /\ pending' = [pending EXCEPT ![c] = NakRetry]
            /\ wake' = [wake EXCEPT ![c] = now + Backoff]
            /\ resume' = [resume EXCEPT ![c] = "finally"]
            /\ pc' = [pc EXCEPT ![c] = "sleep"]
    /\ UNCHANGED <<lock, last_command_time, now, claimed, calls, command,
                   attempt, ser, wire, response, written, history, attemptEnd, lastEnd>>
    /\ UNCHANGED <<failed, api>>
    /\ UNCHANGED pureVars
    /\ UNCHANGED haVars

\* finally: self._last_command_time = time.time(), then the next round of
\* the loop, or out of it.  A loop that runs out of rounds returns None.
Finally(c) ==
    /\ pc[c] = "finally"
    /\ last_command_time' =
           IF UpdatesTimestamp(pending[c]) THEN now ELSE last_command_time
    /\ IF LeavesLoop(pending[c])
       THEN /\ pc' = [pc EXCEPT ![c] = "unlock"]
            /\ UNCHANGED <<attempt, pending>>
       ELSE IF attempt[c] + 1 < RetryBudget
       THEN /\ attempt' = [attempt EXCEPT ![c] = @ + 1]
            /\ pc' = [pc EXCEPT ![c] = "enter"]
            /\ UNCHANGED pending
       ELSE /\ pending' = [pending EXCEPT ![c] = NoOutcome]
            /\ pc' = [pc EXCEPT ![c] = "unlock"]
            /\ UNCHANGED attempt
    /\ UNCHANGED <<lock, now, claimed, calls, command, wake, resume, ser,
                   wire, response, written, history, attemptEnd, lastEnd>>
    /\ UNCHANGED <<failed, api>>
    /\ UNCHANGED pureVars
    /\ UNCHANGED haVars

\* a variant of the with statement that keeps the lock when the block
\* raises
ReleasesOnReturn(outcome) == outcome.kind = "return"

\* `with self._lock:` releases the lock on every way out of the block
Releases(outcome) == TRUE

\* the with statement releases self._lock; send_command returns or raises,
\* to the method that called it when there is one
Unlock(c) ==
    /\ pc[c] = "unlock"
    /\ lock' = IF Releases(pending[c]) THEN NoCaller ELSE lock
    /\ failed' = IF pending[c].kind = "raise" THEN failed + 1 ELSE failed
    /\ IF api[c].method = "none"
       THEN /\ pc' = [pc EXCEPT ![c] = "idle"]
            /\ UNCHANGED api
       ELSE /\ pc' = [pc EXCEPT ![c] = "method"]
            /\ api' = [api EXCEPT ![c].returned = pending[c]]
    \* the locals of the call are gone
    /\ command' = [command EXCEPT ![c] = <<>>]
    /\ attempt' = [attempt EXCEPT ![c] = 0]
    /\ ser' = [ser EXCEPT ![c] = NoConnection]
    /\ wire' = [wire EXCEPT ![c] = <<>>]
    /\ response' = [response EXCEPT ![c] = NotRead]
    /\ pending' = [pending EXCEPT ![c] = NoOutcome]
    /\ written' = [written EXCEPT ![c] = 0]
    /\ history' = [history EXCEPT ![c] = <<>>]
    /\ attemptEnd' = [attemptEnd EXCEPT ![c] = 0]
    /\ UNCHANGED <<last_command_time, now, claimed, calls, wake, resume,
                   lastEnd>>
    /\ UNCHANGED pureVars
    /\ UNCHANGED haVars

\* time passes; past MaxTime it passes only until the sleeps that are
\* running have returned
Tick ==
    /\ \/ now < MaxTime
       \/ \E c \in Callers : pc[c] = "sleep" /\ now < wake[c]
    /\ now' = now + 1
    /\ UNCHANGED <<lock, last_command_time, claimed, pc, calls, command,
                   attempt, wake, resume, ser, wire, response, pending,
                   written, history, attemptEnd, lastEnd>>
    /\ UNCHANGED <<failed, api>>
    /\ UNCHANGED pureVars
    /\ UNCHANGED haVars

Next ==
    \/ \E c \in Callers, cmd \in Commands : SendCommand(c, cmd)
    \/ \E c \in Callers : Acquire(c)
    \/ \E c \in Callers : Pace(c)
    \/ \E c \in Callers : Sleep(c)
    \/ \E c \in Callers, usb \in UsbBehaviours : Enter(c, usb)
    \/ \E c \in Callers, failAt \in 0..2 : Write(c, failAt)
    \/ \E c \in Callers, script \in DeviceScripts : Read(c, script)
    \/ \E c \in Callers : Exit(c)
    \/ \E c \in Callers : Process(c)
    \/ \E c \in Callers : Except(c)
    \/ \E c \in Callers : Finally(c)
    \/ \E c \in Callers : Unlock(c)
    \/ Tick

Spec == Init /\ [][Next]_vars

\* one acquisition for each thing __enter__ can make of it: whether the
\* kernel driver is active, and whether detaching it and setting the
\* configuration fail, makes no difference to enter
UsbOutcomes ==
    {usb \in UsbBehaviours :
         ~usb.driver_active /\ usb.detach_ok /\ usb.config_ok}

\* one script for each way an attempt can go on after the read: nothing
\* read, an acknowledgement, a negative acknowledgement, a payload whose
\* checksum is right, and one whose checksum is wrong
ScriptOutcomes ==
    { <<>>,
      <<Data(PAREN_ACK \o <<CR>>)>>,
      <<Data(PAREN_NAK \o <<CR>>)>>,
      <<UsbTimeout, Data(Framed(ModeB))>>,
      <<Data(ModeB \o <<1, 2, CR>>)>> }

\* the steps of one thread inside send_command
Step(c) ==
    \/ Acquire(c)
    \/ Pace(c)
    \/ Sleep(c)
    \/ \E usb \in UsbOutcomes : Enter(c, usb)
    \/ \E failAt \in 0..2 : Write(c, failAt)
    \/ \E script \in ScriptOutcomes : Read(c, script)
    \/ Exit(c)
    \/ Process(c)
    \/ Except(c)
    \/ Finally(c)
    \/ Unlock(c)

\* The same program where time passes, every thread that can take a step
\* of send_command takes one in the end, and so every USB operation and
\* every sleep comes back.  A thread is free never to call.
NextFair ==
    \/ \E c \in Callers, cmd \in Commands : SendCommand(c, cmd)
    \/ \E c \in Callers : Step(c)
    \/ Tick

SpecFair ==
    /\ Init
    /\ [][NextFair]_vars
    /\ WF_vars(Tick)
    /\ \A c \in Callers : WF_vars(Step(c))

(***************************************************************************)
(* Properties of send_command.                                             *)
(***************************************************************************)
\* between the acquisition of self._lock and its release
InCall == {"pace", "sleep", "enter", "write", "read", "exit", "process",
           "except", "finally", "unlock"}

\* acquiring, writing to, reading from and releasing the transport
TransportSteps == {"enter", "write", "read", "exit"}

\* the running attempt is over, the call is not
AttemptOver == {"except", "sleep", "finally", "unlock"}

Retriable == {"nak", "fail", "empty"}

\* C1: at most one command is in flight on the handle: while a thread is
\* between its lock acquisition and its lock release, no other thread is, so
\* no other thread acquires, writes or reads the transport.
C1_OneCommandInFlight ==
    \A c \in Callers, d \in Callers :
        (c # d /\ pc[c] \in InCall) =>
            /\ pc[d] \notin InCall
            /\ pc[d] \notin TransportSteps

\* C1 witness: a thread is reading while another one waits for the lock
C1_Witness ==
    \E c \in Callers, d \in Callers :
        c # d /\ pc[c] = "read" /\ lock = c /\ pc[d] = "lock"

\* the thread waits for its retry, or is in or after its second attempt
InRetry(c) ==
    \/ pc[c] = "sleep" /\ resume[c] = "finally"
    \/ pc[c] = "finally" /\ pending[c].kind = "continue"
    \/ pc[c] \in InCall /\ attempt[c] = 1

\* C2: the lock is held from the pacing delay to the final outcome of the
\* call: a thread anywhere between the two holds the lock, and during its
\* retry wait and its second attempt no other thread is in an attempt.
C2_LockHeldThroughRetry ==
    \A c \in Callers :
        /\ pc[c] \in InCall => lock = c
        /\ InRetry(c) =>
               \A d \in Callers \ {c} : pc[d] \in {"idle", "lock"}

\* C2 witness: a thread sleeps before its retry while another thread is
\* waiting for the lock
C2_Witness ==
    \E c \in Callers, d \in Callers :
        /\ c # d
        /\ pc[c] = "sleep" /\ resume[c] = "finally" /\ now < wake[c]
        /\ pc[d] = "lock"

\* C3: a call makes at most 2 attempts; a second attempt starts only after a
\* first one that ended in a NAK or a failure; an attempt that yields ACK or
\* a payload is the last one of its call.
C3_AtMostTwoAttempts ==
    \A c \in Callers :
        /\ Len(history[c]) <= 2
        /\ pc[c] \in (TransportSteps \cup {"process"}) =>
               /\ Len(history[c]) = attempt[c]
               /\ Len(history[c]) <= 1
               /\ \A i \in 1..Len(history[c]) : history[c][i] \in Retriable
        /\ \A i \in 1..Len(history[c]) :
               history[c][i] \in {"ack", "payload"} =>
                   /\ i = Len(history[c])
                   /\ pc[c] \in {"finally", "unlock"}
                   /\ pending[c].kind = "return"

\* C3 witness: a call ends after a failed first attempt and a NAK on the
\* second
C3_Witness ==
    \E c \in Callers :
        pc[c] = "unlock" /\ history[c] = <<"fail", "nak">>

\* the bytes of a bare or parenthesised NAK, with or without the CR
NakResponses == {NAK, PAREN_NAK, NAK \o <<CR>>, PAREN_NAK \o <<CR>>}

\* C4: a NAK or (NAK response to the first attempt is followed by a wait of
\* one second and a second attempt; a NAK or (NAK response to both attempts
\* makes the call fail with "not supported" after exactly two frames written.
C4_NakRetriedThenNotSupported ==
    \A c \in Callers :
        (pc[c] \in AttemptOver /\ response[c] \in NakResponses) =>
            /\ attempt[c] = 0 =>
                   /\ pending[c].kind = "continue"
                   /\ pc[c] \in {"sleep", "finally"}
                   /\ pc[c] = "sleep" => wake[c] = attemptEnd[c] + NakWait
                   /\ history[c] = <<"nak">>
            /\ (attempt[c] = 1 /\ history[c][1] = "nak") =>
                   /\ pending[c] = Raised("NotSupported")
                   /\ history[c] = <<"nak", "nak">>
                   /\ written[c] = 2

\* C4 witness: both attempts were answered (NAK and the call is about to
\* raise "not supported"
C4_Witness ==
    \E c \in Callers :
        /\ pc[c] = "unlock"
        /\ history[c] = <<"nak", "nak">>
        /\ response[c] = PAREN_NAK \o <<CR>>
        /\ pending[c].error = "NotSupported"
        /\ written[c] = 2

\* C5: a failure on the first attempt is caught and followed by exactly one
\* further attempt; a failure on the second attempt is what the call raises;
\* when the second attempt succeeds the call returns.
C5_FailureRetriedOnce ==
    \A c \in Callers :
        /\ (pc[c] \in {"finally", "unlock"} /\ pending[c].kind = "raise") =>
               /\ Len(history[c]) = 2
               /\ history[c][2] \in Retriable
        /\ (pc[c] = "unlock" /\ Len(history[c]) >= 1
                /\ history[c][1] \in {"fail", "empty"}) =>
               /\ Len(history[c]) = 2
               /\ history[c][2] \in {"fail", "empty"} <=>
                      (pending[c].kind = "raise"
                       /\ pending[c].error # "NotSupported")
               /\ history[c][2] \in {"ack", "payload"} <=>
                      pending[c].kind = "return"

\* C5 witness: the first attempt failed, the second one returned a payload
C5_Witness ==
    \E c \in Callers :
        /\ pc[c] = "unlock"
        /\ history[c] = <<"fail", "payload">>
        /\ pending[c].kind = "return"

\* C6: an attempt whose read returned zero bytes fails with "no response":
\* nothing is returned from it, and a call whose two attempts both read zero
\* bytes raises that error.
C6_EmptyReadIsNoResponse ==
    \A c \in Callers :
        /\ (pc[c] \in AttemptOver /\ response[c] = <<>>) =>
               /\ pending[c].kind # "return"
               /\ history[c][Len(history[c])] = "empty"
               /\ pc[c] = "except" => pending[c] = Raised("NoResponse")
               /\ attempt[c] = 0 => pc[c] # "unlock"
        /\ (pc[c] = "unlock" /\ history[c] = <<"empty", "empty">>) =>
               pending[c] = Raised("NoResponse")

\* C6 witness: both attempts of a call read zero bytes
C6_Witness ==
    \E c \in Callers :
        /\ pc[c] = "unlock"
        /\ response[c] = <<>>
        /\ history[c] = <<"empty", "empty">>
        /\ pending[c].error = "NoResponse"

\* the bytes of a bare or parenthesised ACK, with or without the CR
AckResponses == {ACK, PAREN_ACK, ACK \o <<CR>>, PAREN_ACK \o <<CR>>}

\* C7: an attempt whose response is ACK or (ACK, with or without the CR,
\* returns the text ACK, is the last attempt of the call, and runs no
\* checksum over the received bytes.
C7_AckReturnedWithoutChecksum ==
    \A c \in Callers :
        (pc[c] \in AttemptOver /\ response[c] \in AckResponses) =>
            /\ pc[c] \in {"finally", "unlock"}
            /\ pending[c].kind = "return"
            /\ pending[c].text = ACK
            /\ pending[c].crcs = 0
            /\ history[c][Len(history[c])] = "ack"

\* C7 witness: the retry of a call was answered ACK and CR
C7_Witness ==
    \E c \in Callers :
        /\ pc[c] = "unlock"
        /\ attempt[c] = 1
        /\ response[c] = ACK \o <<CR>>
        /\ pending[c].text = ACK

\* C8: send_command never returns the text NAK.
C8_NeverReturnsNak ==
    \A c \in Callers :
        (pc[c] \in {"finally", "unlock"} /\ pending[c].kind = "return") =>
            pending[c].text # NAK

\* C9: once an attempt is over, and whenever the lock is free, no claim of
\* the USB interface is outstanding.
C9_InterfaceReleased ==
    /\ \A c \in Callers : pc[c] \in (AttemptOver \cup {"process"}) => claimed = 0
    /\ lock = NoCaller => claimed = 0

\* C10: after every attempt, whatever its end, the timestamp is not older
\* than the moment the attempt ended.
C10_TimestampAfterEveryAttempt ==
    \A c \in Callers :
        (\/ pc[c] = "unlock"
         \/ pc[c] \in (TransportSteps \cup {"process"}) /\ attempt[c] = 1) =>
            /\ Len(history[c]) >= 1
            /\ last_command_time >= attemptEnd[c]

\* C10 witness: the second attempt starts after a NAK, and the timestamp is
\* that of the end of the wait
C10_Witness ==
    \E c \in Callers :
        /\ pc[c] = "enter"
        /\ attempt[c] = 1
        /\ history[c] = <<"nak">>
        /\ last_command_time >= attemptEnd[c] + NakWait

\* C11: whenever a thread is about to acquire the transport, at least the
\* minimum spacing (500 ms) has passed since the end of the latest attempt on
\* the handle, whether that attempt was of the same call or of another one.
C11_SpacingBetweenAttempts ==
    \A c \in Callers : pc[c] = "enter" => now >= lastEnd + MinSpacing

\* C11 witness: a call is about to acquire the transport exactly one spacing
\* after an attempt of an earlier call.
C11_Witness ==
    \E c \in Callers :
        /\ pc[c] = "enter"
        /\ attempt[c] = 0
        /\ calls = 2
        /\ lastEnd >= 1
        /\ now = lastEnd + MinSpacing

(***************************************************************************)
(* get_general_status: the QPIGS payload, split at whitespace, converted   *)
(* field by field.  A mapping is a function from its keys; a float is the  *)
(* pair <<n, d>> of the value n/d with d the least power of ten.           *)
(***************************************************************************)
MaxFields == 21

Digits == 48..57
DOT == 46
SPACE == 32

\* the k-th smallest element of a set of numbers
Nth(S, k) == CHOOSE x \in S : Cardinality({y \in S : y < x}) = k - 1

\* str.split() with no argument: the maximal runs of characters that are
\* not whitespace
TokenStarts(s) ==
    {i \in 1..Len(s) :
        s[i] \notin Whitespace /\ (i = 1 \/ s[i - 1] \in Whitespace)}

TokenEnd(s, i) ==
    CHOOSE j \in i..Len(s) :
        /\ \A k \in i..j : s[k] \notin Whitespace
        /\ j = Len(s) \/ s[j + 1] \in Whitespace

split(s) ==
    LET starts == TokenStarts(s)
    IN  [k \in 1..Cardinality(starts) |->
            LET i == Nth(starts, k) IN SubSeq(s, i, TokenEnd(s, i))]

RECURSIVE DecimalValue(_)
DecimalValue(digits) ==
    IF digits = <<>> THEN 0
    ELSE 10 * DecimalValue(Take(digits, Len(digits) - 1))
             + (digits[Len(digits)] - 48)

AllDigits(s) == \A i \in 1..Len(s) : s[i] \in Digits

ValueError == [ok |-> FALSE, value |-> 0]

\* int(token) for a token of digits, '.' and letters: only a run of digits
\* converts
ParseInt(token) ==
    IF token # <<>> /\ AllDigits(token)
    THEN [ok |-> TRUE, value |-> DecimalValue(token)]
    ELSE ValueError

RECURSIVE Reduce(_, _)
Reduce(n, d) ==
    IF d > 1 /\ n % 10 = 0 THEN Reduce(n \div 10, d \div 10) ELSE <<n, d>>

\* float(token) for a token of digits, '.' and letters: digits with at most
\* one '.', and at least one digit, convert
ParseFloat(token) ==
    LET dots == {i \in 1..Len(token) : token[i] = DOT}
    IN  IF Cardinality(dots) > 1 THEN ValueError
        ELSE LET p     == IF dots = {} THEN Len(token) + 1
                          ELSE CHOOSE i \in dots : TRUE
                 whole == Take(token, p - 1)
                 frac  == Drop(token, p)
             IN  IF AllDigits(whole) /\ AllDigits(frac)
                    /\ Len(whole) + Len(frac) >= 1
                 THEN [ok |-> TRUE,
                       value |-> Reduce(DecimalValue(whole \o frac),
                                        10 ^ Len(frac))]
                 ELSE ValueError

\* the entries of the dict literal, in the order of their indices 0..16
BaseFields ==
    <<
       [key |-> "grid_voltage", conv |-> "float"],
       [key |-> "grid_frequency", conv |-> "float"],
       [key |-> "ac_output_voltage", conv |-> "float"],
       [key |-> "ac_output_frequency", conv |-> "float"],
       [key |-> "ac_output_apparent_power", conv |-> "int"],
       [key |-> "ac_output_active_power", conv |-> "int"],
       [key |-> "output_load_percent", conv |-> "int"],
       [key |-> "bus_voltage", conv |-> "int"],
       [key |-> "battery_voltage", conv |-> "float"],
       [key |-> "battery_charging_current", conv |-> "int"],
       [key |-> "battery_capacity", conv |-> "int"],
       [key |-> "heat_sink_temperature", conv |-> "int"],
       [key |-> "pv_input_current", conv |-> "float"],
       [key |-> "pv_input_voltage", conv |-> "float"],
       [key |-> "scc_voltage", conv |-> "float"],
       [key |-> "battery_discharge_current", conv |-> "int"],
       [key |-> "status_binary", conv |-> "str"]
    >>

Convert(conv, token) ==
    IF conv = "float" THEN ParseFloat(token)
    ELSE IF conv = "int" THEN ParseInt(token)
    ELSE [ok |-> TRUE, value |-> token]

EmptyMapping == [k \in {} |-> 0]

\* `if len(parts) > 16`
HasExtended(parts) == Len(parts) > 16

\* `if len(parts) < 16`
TooShort(parts) == Len(parts) < 16

\* an exception that leaves the function
Propagated(exc) == [exception |-> exc]

\* what a try block comes to: its mapping (exc "none"), or the exception
\* that ended it
Completed(data) == [exc |-> "none", data |-> data]
Interrupted(exc) == [exc |-> exc, data |-> EmptyMapping]

\* the dict literal is evaluated entry by entry: the first entry whose index
\* is beyond the payload raises IndexError, the first one whose field does
\* not convert raises ValueError
BaseFailures(parts) ==
    {i \in 1..Len(BaseFields) :
        i > Len(parts) \/ ~Convert(BaseFields[i].conv, parts[i]).ok}

\* a variant that takes the last field of the payload
extended_field_last(parts) == parts[Len(parts)]

\* parts[19], the PV charging power
extended_field(parts) == parts[20]

general_status_try(parts) ==
    IF BaseFailures(parts) # {}
    THEN LET i == Nth(BaseFailures(parts), 1)
         IN  Interrupted(IF i > Len(parts) THEN "IndexError" ELSE "ValueError")
    ELSE LET data ==
                 [k \in {BaseFields[i].key : i \in 1..Len(BaseFields)} |->
                     LET i == CHOOSE j \in 1..Len(BaseFields) :
                                  BaseFields[j].key = k
                     IN  Convert(BaseFields[i].conv, parts[i]).value]
         IN  IF HasExtended(parts)
             THEN IF Len(parts) < 20 THEN Interrupted("IndexError")
                  ELSE IF ~ParseInt(extended_field(parts)).ok THEN Interrupted("ValueError")
                  ELSE Completed(
                           [k \in DOMAIN data \cup {"pv_charging_power"} |->
                               IF k = "pv_charging_power"
                               THEN ParseInt(extended_field(parts)).value
                               ELSE data[k]])
             ELSE Completed(data)

\* a variant of the except clause that knows ValueError only
StatusCatchesValueError(exc) == exc = "ValueError"

\* `except (ValueError, IndexError)`
StatusCatches(exc) == exc \in {"ValueError", "IndexError"}

\* a variant without the guards and without the except clause
get_general_status_unguarded(raw) ==
    LET t == general_status_try(split(raw))
    IN  IF t.exc = "none" THEN t.data ELSE Propagated(t.exc)

\* a variant that keeps the entries built before the exception
get_general_status_partial(raw) ==
    LET parts == split(raw)
        built == IF BaseFailures(parts) = {} THEN Len(BaseFields)
                 ELSE Nth(BaseFailures(parts), 1) - 1
    IN  [k \in {BaseFields[i].key : i \in 1..built} |->
            LET i == CHOOSE j \in 1..built : BaseFields[j].key = k
            IN  Convert(BaseFields[i].conv, parts[i]).value]

\* raw is what send_command("QPIGS") returned.  An exception the except
\* clause catches ends in `return {}`.
get_general_status(raw) ==
    IF raw = <<>> THEN EmptyMapping
    ELSE LET parts == split(raw)
         IN  IF TooShort(parts) THEN EmptyMapping
             ELSE LET t == general_status_try(parts)
                  IN  IF t.exc = "none" THEN t.data
                      ELSE IF StatusCatches(t.exc) THEN EmptyMapping
                      ELSE Propagated(t.exc)

\* a QPIGS payload of an inverter in operation, field by field
SampleFields ==
    <<
       <<48, 48, 48, 46, 48>>,  \* 0: 000.0
       <<48, 48, 46, 48>>,  \* 1: 00.0
       <<50, 51, 48, 46, 48>>,  \* 2: 230.0
       <<53, 48, 46, 48>>,  \* 3: 50.0
       <<48, 48, 52, 54>>,  \* 4: 0046
       <<48, 48, 48, 50>>,  \* 5: 0002
       <<48, 48, 48>>,  \* 6: 000
       <<51, 55, 49>>,  \* 7: 371
       <<53, 51, 46, 50, 48>>,  \* 8: 53.20
       <<48, 48, 49>>,  \* 9: 001
       <<48, 56, 48>>,  \* 10: 080
       <<48, 48, 50, 54>>,  \* 11: 0026
       <<48, 48, 48, 49>>,  \* 12: 0001
       <<48, 56, 57, 46, 57>>,  \* 13: 089.9
       <<53, 51, 46, 49, 51>>,  \* 14: 53.13
       <<48, 48, 48, 48, 48>>,  \* 15: 00000
       <<48, 48, 49, 49, 48, 49, 49, 48>>,  \* 16: 00110110
       <<48, 48>>,  \* 17: 00
       <<48, 48>>,  \* 18: 00
       <<48, 48, 49, 50, 48>>,  \* 19: 00120
       <<48, 49, 48>>  \* 20: 010
    >>

\* the field number k of a payload: beyond the sample, 000
SampleField(k) ==
    IF k <= Len(SampleFields) THEN SampleFields[k] ELSE <<48, 48, 48>>

RECURSIVE Join(_)
Join(fields) ==
    IF fields = <<>> THEN <<>>
    ELSE IF Len(fields) = 1 THEN fields[1]
    ELSE fields[1] \o <<SPACE>> \o Join(Tail(fields))

\* a payload of n fields; the field number bad (0: none) is the letter X
Payload(n, bad) ==
    [type |-> "payload", n |-> n, bad |-> bad,
     value |-> Join([k \in 1..n |->
                        IF k = bad THEN <<88>> ELSE SampleField(k)])]

StatusPayloads ==
    UNION {{Payload(n, bad) : bad \in 0..n} : n \in 0..MaxFields}

\* get_general_status on the payload arg
ApplyGeneralStatus ==
    /\ fn = "none"
    /\ arg.type = "payload"
    /\ out' = get_general_status(arg.value)
    /\ fn' = "status"
    /\ UNCHANGED <<arg, again>>
    /\ UNCHANGED handleVars
    /\ UNCHANGED haVars

(***************************************************************************)
(* get_rated_information: the QPIRI payload.  Every entry is guarded by    *)
(* the number of fields; the entries are built in the order of the code.   *)
(***************************************************************************)
\* the entries of data, in the order of their if statements; index counts
\* the fields from 0
RatedFields ==
    <<
       [key |-> "output_source_priority", index |-> 16, conv |-> "str"],
       [key |-> "charger_source_priority", index |-> 17, conv |-> "str"],
       [key |-> "battery_cutoff_voltage", index |-> 9, conv |-> "float"],
       [key |-> "battery_bulk_voltage", index |-> 10, conv |-> "float"],
       [key |-> "battery_float_voltage", index |-> 11, conv |-> "float"],
       [key |-> "battery_type", index |-> 12, conv |-> "str"],
       [key |-> "max_ac_charging_current", index |-> 13, conv |-> "int"],
       [key |-> "max_charging_current", index |-> 14, conv |-> "int"],
       [key |-> "ac_input_range", index |-> 15, conv |-> "str"]
    >>

\* `if len(parts) > index`
RatedPresent(parts) ==
    {i \in 1..Len(RatedFields) : Len(parts) > RatedFields[i].index}

RatedField(parts, i) == parts[RatedFields[i].index + 1]

rated_information_try(parts) ==
    IF \E i \in RatedPresent(parts) :
           ~Convert(RatedFields[i].conv, RatedField(parts, i)).ok
    THEN Interrupted("ValueError")
    ELSE Completed(
             [k \in {RatedFields[i].key : i \in RatedPresent(parts)} |->
                 LET i == CHOOSE j \in RatedPresent(parts) :
                              RatedFields[j].key = k
                 IN  Convert(RatedFields[i].conv, RatedField(parts, i)).value])

\* `except Exception`
RatedCatches(exc) == TRUE

\* a variant without the guard on the number of fields
RatedTooShortNever(parts) == FALSE

\* `if len(parts) < 17`
RatedTooShort(parts) == Len(parts) < 17

\* raw is what send_command("QPIRI") returned
get_rated_information(raw) ==
    IF raw = <<>> THEN EmptyMapping
    ELSE LET parts == split(raw)
         IN  IF RatedTooShort(parts) THEN EmptyMapping
             ELSE LET t == rated_information_try(parts)
                  IN  IF t.exc = "none" THEN t.data
                      ELSE IF RatedCatches(t.exc) THEN EmptyMapping
                      ELSE Propagated(t.exc)

\* a QPIRI payload of an inverter in operation, field by field
RatedSampleFields ==
    <<
       <<50, 51, 48, 46, 48>>,  \* 0: 230.0
       <<50, 49, 46, 55>>,  \* 1: 21.7
       <<50, 51, 48, 46, 48>>,  \* 2: 230.0
       <<53, 48, 46, 48>>,  \* 3: 50.0
       <<50, 49, 46, 55>>,  \* 4: 21.7
       <<53, 48, 48, 48>>,  \* 5: 5000
       <<52, 48, 48, 48>>,  \* 6: 4000
       <<52, 56, 46, 48>>,  \* 7: 48.0
       <<52, 54, 46, 48>>,  \* 8: 46.0
       <<52, 50, 46, 48>>,  \* 9: 42.0
       <<53, 54, 46, 52>>,  \* 10: 56.4
       <<53, 52, 46, 48>>,  \* 11: 54.0
       <<48>>,  \* 12: 0
       <<49, 48>>,  \* 13: 10
       <<48, 49, 48>>,  \* 14: 010
       <<49>>,  \* 15: 1
       <<48>>,  \* 16: 0
       <<48>>,  \* 17: 0
       <<54>>,  \* 18: 6
       <<48, 49>>,  \* 19: 01
       <<48>>  \* 20: 0
    >>

\* the field number k of a payload: beyond the sample, 0
RatedSampleField(k) ==
    IF k <= Len(RatedSampleFields) THEN RatedSampleFields[k] ELSE <<48>>

\* a payload of n fields; the field number bad (0: none) is the letter X
RatedPayload(n, bad) ==
    [type |-> "rated", n |-> n, bad |-> bad,
     value |-> Join([k \in 1..n |->
                        IF k = bad THEN <<88>> ELSE RatedSampleField(k)])]

RatedPayloads ==
    UNION {{RatedPayload(n, bad) : bad \in 0..n} : n \in 0..MaxFields}

\* get_rated_information on the payload arg
ApplyRatedInformation ==
    /\ fn = "none"
    /\ arg.type = "rated"
    /\ out' = get_rated_information(arg.value)
    /\ fn' = "rated"
    /\ UNCHANGED <<arg, again>>
    /\ UNCHANGED handleVars
    /\ UNCHANGED haVars

(***************************************************************************)
(* The methods of the handle that wrap one send_command call: get_warnings *)
(* and the setters.  A thread enters the method, the method calls          *)
(* send_command, and what send_command returns or raises comes back to the *)
(* method, which makes its own result of it.                               *)
(***************************************************************************)
CmdQPIWS == <<81, 80, 73, 87, 83>>
CmdPGR01 == <<80, 71, 82, 48, 49>>


\* str(n) for n >= 0
RECURSIVE FormatInt(_)
FormatInt(n) ==
    IF n < 10 THEN <<48 + n>> ELSE FormatInt(n \div 10) \o <<48 + (n % 10)>>

\* the fill of the format specs 03 and 04.1f, for a number that is not
\* negative: zeros on the left up to the width, nothing cut
RECURSIVE ZeroPad(_, _)
ZeroPad(s, width) ==
    IF Len(s) >= width THEN s ELSE ZeroPad(<<48>> \o s, width)

\* f"{current:03}"
FormatCurrent(current) == ZeroPad(FormatInt(current), 3)

\* f"{voltage:04.1f}" for a voltage of tenths/10 volt
FormatVoltage(tenths) ==
    ZeroPad(FormatInt(tenths \div 10) \o <<DOT, 48 + (tenths % 10)>>, 4)

\* the setters that build their command from a mnemonic and an argument
SetterTable ==
    [set_output_source_priority       |-> [mnemonic |-> <<80, 79, 80>>,
                                           format |-> "str"],
     set_charger_source_priority      |-> [mnemonic |-> <<80, 67, 80>>,
                                           format |-> "str"],
     set_max_charging_current         |-> [mnemonic |-> <<77, 78, 67, 72, 71, 67>>,
                                           format |-> "current"],
     set_max_utility_charging_current |-> [mnemonic |-> <<77, 85, 67, 72, 71, 67>>,
                                           format |-> "current"],
     set_battery_type                 |-> [mnemonic |-> <<80, 66, 84>>,
                                           format |-> "str"],
     set_battery_cutoff_voltage       |-> [mnemonic |-> <<80, 83, 68, 86>>,
                                           format |-> "voltage"],
     set_battery_bulk_voltage         |-> [mnemonic |-> <<80, 67, 86, 86>>,
                                           format |-> "voltage"],
     set_battery_float_voltage        |-> [mnemonic |-> <<80, 66, 70, 84>>,
                                           format |-> "voltage"]]

Setters == DOMAIN SetterTable

\* arguments the setters are called with: the text "02", the current
\* 60 A, the voltage 48.0 V
SetterValues(format) ==
    IF format = "str" THEN {<<48, 50>>}
    ELSE IF format = "current" THEN {60}
    ELSE {480}

SetterCommand(setter, value) ==
    LET s == SetterTable[setter]
    IN  s.mnemonic \o (IF s.format = "str" THEN value
                       ELSE IF s.format = "current" THEN FormatCurrent(value)
                       ELSE FormatVoltage(value))

\* needle in text
IsSubstring(needle, text) ==
    \E i \in 0..(Len(text) - Len(needle)) :
        SubSeq(text, i + 1, i + Len(needle)) = needle

\* a variant of get_warnings without the except clause
get_warnings_reraising(outcome) ==
    IF outcome.kind = "raise" THEN MethodRaised(outcome.error)
    ELSE IF outcome.kind = "none" THEN MethodReturned(None)
    ELSE MethodReturned(outcome.text)

\* try: return self.send_command("QPIWS") / except Exception: return ""
get_warnings(outcome) ==
    IF outcome.kind = "raise" THEN MethodReturned(<<>>)
    ELSE IF outcome.kind = "none" THEN MethodReturned(None)
    ELSE MethodReturned(outcome.text)

\* return "ACK" in self.send_command(cmd): an exception of send_command
\* goes on to the caller, and None has no `in`
setter_result(outcome) ==
    IF outcome.kind = "raise" THEN MethodRaised(outcome.error)
    ELSE IF outcome.kind = "none" THEN MethodRaised("TypeError")
    ELSE MethodReturned(IsSubstring(ACK, outcome.text))

\* the variables a method leaves to send_command
sendVars ==
    <<lock, last_command_time, now, claimed, calls, command, attempt, wake,
      resume, ser, wire, response, pending, written, history, attemptEnd,
      lastEnd, failed>>

\* a thread enters a method, which calls send_command(cmd)
CallMethod(c, method, cmd) ==
    /\ calls < MaxMethodCalls
    /\ Call(c, cmd)
    /\ api' = [api EXCEPT ![c] = [method |-> method, sent |-> <<cmd>>,
                                  returned |-> NoOutcome,
                                  result |-> NotReturned]]

GetWarnings(c) == CallMethod(c, "get_warnings", CmdQPIWS)

SetAcInputRange(c, mode_code) == CallMethod(c, "set_ac_input_range", mode_code)

Setter(c, setter, value) ==
    /\ value \in SetterValues(SetterTable[setter].format)
    /\ CallMethod(c, setter, SetterCommand(setter, value))

\* send_command has come back to get_warnings
GetWarningsExit(c) ==
    /\ pc[c] = "method"
    /\ api[c].method = "get_warnings"
    /\ api' = [api EXCEPT ![c].result = get_warnings(api[c].returned)]
    /\ pc' = [pc EXCEPT ![c] = "done"]
    /\ UNCHANGED sendVars
    /\ UNCHANGED pureVars
    /\ UNCHANGED haVars

\* send_command has come back to a setter
SetterExit(c) ==
    /\ pc[c] = "method"
    /\ api[c].method \in Setters \cup {"set_ac_input_range"}
    /\ api' = [api EXCEPT ![c].result = setter_result(api[c].returned)]
    /\ pc' = [pc EXCEPT ![c] = "done"]
    /\ UNCHANGED sendVars
    /\ UNCHANGED pureVars
    /\ UNCHANGED haVars

\* the caller of the method has its result; the frame of the method is gone
Return(c) ==
    /\ pc[c] = "done"
    /\ api' = [api EXCEPT ![c] = NoApi]
    /\ pc' = [pc EXCEPT ![c] = "idle"]
    /\ UNCHANGED sendVars
    /\ UNCHANGED pureVars
    /\ UNCHANGED haVars

\* a reply that is no acknowledgement and holds the letters ACK
PAREN_NACK == <<LPAREN, 78>> \o ACK

ApiScripts == DeviceScripts \cup {<<Data(Framed(PAREN_NACK))>>}

\* the methods are called by one thread; what threads do to each other is
\* all in send_command
ApiCallers == {1}

NextApi ==
    \/ \E c \in ApiCallers : GetWarnings(c)
    \/ \E c \in ApiCallers, mode_code \in {CmdPGR01} :
           SetAcInputRange(c, mode_code)
    \/ \E c \in ApiCallers, setter \in Setters :
           \E value \in SetterValues(SetterTable[setter].format) :
               Setter(c, setter, value)
    \/ \E c \in ApiCallers : Acquire(c)
    \/ \E c \in ApiCallers : Pace(c)
    \/ \E c \in ApiCallers : Sleep(c)
    \/ \E c \in ApiCallers, usb \in UsbBehaviours : Enter(c, usb)
    \/ \E c \in ApiCallers, failAt \in 0..2 : Write(c, failAt)
    \/ \E c \in ApiCallers, script \in ApiScripts : Read(c, script)
    \/ \E c \in ApiCallers : Exit(c)
    \/ \E c \in ApiCallers : Process(c)
    \/ \E c \in ApiCallers : Except(c)
    \/ \E c \in ApiCallers : Finally(c)
    \/ \E c \in ApiCallers : Unlock(c)
    \/ \E c \in ApiCallers : GetWarningsExit(c)
    \/ \E c \in ApiCallers : SetterExit(c)
    \/ \E c \in ApiCallers : Return(c)
    \/ Tick

SpecApi == Init /\ [][NextApi]_vars

(***************************************************************************)
(* Functions applied on their own.  The second specification draws one     *)
(* argument, applies a function of the core to it and, for _get_crc,       *)
(* applies it once more after other commands have run on the handle.       *)
(***************************************************************************)
MaxCrcLen == 3

\* NUL, '2', '9' and e acute (two bytes in UTF-8)
CrcAlphabet == {0, 50, 57, 233}

CmdPOP02 == <<80, 79, 80, 48, 50>>

SeqsUpTo(S, n) == UNION {[1..k -> S] : k \in 0..n}

Str(t) == [type |-> "str", value |-> t]
Bytes(b) == [type |-> "bytes", value |-> b]

\* every sequence over the alphabet, two inputs whose register has two
\* bytes to escape (0x0A0D and 0x280D), and the command POP02 (0xE20A)
CrcInputs ==
    LET seqs == SeqsUpTo(CrcAlphabet, MaxCrcLen)
                    \cup {<<45, 82>>, <<73, 126>>, CmdPOP02}
    IN  {Str(s) : s \in seqs} \cup {Bytes(s) : s \in seqs}

\* da = bytearray(cmd, 'utf8') for a str, bytearray(cmd) otherwise
ByteArray(cmd) ==
    IF cmd.type = "str" THEN Utf8Encode(cmd.value) ELSE cmd.value

\* a variant that mixes the timestamp of the handle into the input
get_crc_stamped(cmd) ==
    get_crc(ByteArray(cmd) \o <<last_command_time % 256>>)

\* _get_crc(cmd) for a str or a bytes argument
get_crc_cmd(cmd) == get_crc(ByteArray(cmd))

MaxDataLen == 2
MaxGarbage == 3

\* 'B', '0' and space after the ( marker
DataAlphabet == {66, 48, 32}

\* NUL, 0xFF and 'A'
GarbageAlphabet == {0, 255, 65}

\* what the recovery logic gets: data, its checksum and trailing garbage
Garbled(data, garbage) ==
    [type |-> "response", value |-> data \o get_crc(data) \o garbage,
     data |-> data]

GarbledResponses ==
    {Garbled(<<LPAREN>> \o d, g) :
        d \in SeqsUpTo(DataAlphabet, MaxDataLen),
        g \in SeqsUpTo(GarbageAlphabet, MaxGarbage) \ {<<>>}}

MaxReplyLen == 4

\* (, space, 'B' and NUL
ReplyAlphabet == {40, 32, 66, 0}

\* what read_until returns for a reply that arrives whole: the data, its
\* checksum and CR
Reply(data) == [type |-> "reply", value |-> Framed(data), data |-> data]

Replies == {Reply(d) : d \in SeqsUpTo(ReplyAlphabet, MaxReplyLen)}

\* frames for USBConnection.write: byte i of a frame is 64 + i, so that the
\* order of the bytes on the wire can be told; the type of the input says
\* whether __enter__ discovered an interrupt OUT endpoint
MaxFrameLen == 17

Frame(n) == [i \in 1..n |-> 64 + i]

Frames ==
    {[type |-> t, value |-> Frame(n)] :
         t \in {"frame_out", "frame_ctrl"}, n \in 0..MaxFrameLen}

\* scripts for USBConnection.read_until: up to MaxScriptLen reads of the
\* IN endpoint, each a timeout, another USB error, or data with or without
\* the terminator; the type of the input says whether __enter__ found an
\* IN endpoint
MaxScriptLen == 3

ScriptReads ==
    <<UsbTimeout, UsbIoError, Data(<<65>>), Data(<<66, CR>>), Data(<<CR, 67>>)>>

\* the script whose reads are numbered by codes
Script(codes) == [i \in 1..Len(codes) |-> ScriptReads[codes[i]]]

Scripts ==
    {[type |-> t, value |-> codes] :
         t \in {"script", "script_no_in"},
         codes \in SeqsUpTo(1..Len(ScriptReads), MaxScriptLen)}

InitPure ==
    /\ InitHandle
    /\ InitHa
    /\ fn = "none"
    /\ arg \in CrcInputs \cup GarbledResponses \cup Replies
                \cup StatusPayloads \cup RatedPayloads \cup Frames
                \cup Scripts
    /\ out = NoResult
    /\ again = NoResult

\* self._get_crc(arg)
ApplyGetCrc ==
    /\ fn = "none"
    /\ arg.type \in {"str", "bytes"}
    /\ out' = get_crc_cmd(arg)
    /\ fn' = "crc"
    /\ UNCHANGED <<arg, again>>
    /\ UNCHANGED handleVars
    /\ UNCHANGED haVars

\* other commands run on the handle: its lock and its timestamp change
OtherCommands ==
    /\ fn = "crc"
    /\ \E l \in Callers \cup {NoCaller}, t \in 0..MaxTime :
           /\ <<l, t>> # <<lock, last_command_time>>
           /\ lock' = l
           /\ last_command_time' = t
    /\ UNCHANGED <<now, claimed, pc, calls, command, attempt, wake, resume,
                   ser, wire, response, pending, written, history,
                   attemptEnd, lastEnd>>
    /\ UNCHANGED <<failed, api>>
    /\ UNCHANGED pureVars
    /\ UNCHANGED haVars

\* self._get_crc(arg) once more
ApplyGetCrcAgain ==
    /\ fn = "crc"
    /\ again' = get_crc_cmd(arg)
    /\ fn' = "crc_again"
    /\ UNCHANGED <<arg, out>>
    /\ UNCHANGED handleVars
    /\ UNCHANGED haVars

\* self._get_crc on the UTF-8 encoding of the text arg
ApplyGetCrcEncoded ==
    /\ fn = "crc"
    /\ arg.type = "str"
    /\ again' = get_crc_cmd(Bytes(Utf8Encode(arg.value)))
    /\ fn' = "crc_encoded"
    /\ UNCHANGED <<arg, out>>
    /\ UNCHANGED handleVars
    /\ UNCHANGED haVars

\* full_command = command.encode() + crc + b'\r' for the text arg
ApplyFullCommand ==
    /\ fn = "none"
    /\ arg.type = "str"
    /\ out' = full_command(arg.value)
    /\ fn' = "frame"
    /\ UNCHANGED <<arg, again>>
    /\ UNCHANGED handleVars
    /\ UNCHANGED haVars

\* lines 242-287: the payload bytes raw_data of the response arg
ApplyExtract ==
    /\ fn = "none"
    /\ arg.type = "response"
    /\ out' = Extract(arg.value)
    /\ fn' = "extract"
    /\ UNCHANGED <<arg, again>>
    /\ UNCHANGED handleVars
    /\ UNCHANGED haVars

\* lines 219-284 on the reply arg: the CR stripped, then the split
ApplyExtractReply ==
    /\ fn = "none"
    /\ arg.type = "reply"
    /\ out' = Extract(StripCR(arg.value))
    /\ fn' = "split"
    /\ UNCHANGED <<arg, again>>
    /\ UNCHANGED handleVars
    /\ UNCHANGED haVars

\* lines 216-304 on the reply arg, in the first attempt of a call
ApplyProcess ==
    /\ fn = "none"
    /\ arg.type = "reply"
    /\ out' = process_response(arg.value, 0)
    /\ fn' = "process"
    /\ UNCHANGED <<arg, again>>
    /\ UNCHANGED handleVars
    /\ UNCHANGED haVars

\* ser.write(arg) on a connection with or without an OUT endpoint; the
\* transfer number failAt raises (0: none does)
ApplyWrite ==
    /\ fn = "none"
    /\ arg.type \in {"frame_out", "frame_ctrl"}
    /\ \E failAt \in 0..Len(WriteChunks(arg.value)) :
           out' = write(arg.type = "frame_out", arg.value, failAt)
    /\ fn' = "write"
    /\ UNCHANGED <<arg, again>>
    /\ UNCHANGED handleVars
    /\ UNCHANGED haVars

\* ser.read_until(b'\r') while the IN endpoint does what the script arg says
ApplyReadUntil ==
    /\ fn = "none"
    /\ arg.type \in {"script", "script_no_in"}
    /\ out' = read_until(arg.type = "script", Script(arg.value), CR)
    /\ fn' = "read"
    /\ UNCHANGED <<arg, again>>
    /\ UNCHANGED handleVars
    /\ UNCHANGED haVars

NextPure ==
    \/ ApplyExtractReply
    \/ ApplyGetCrc
    \/ OtherCommands
    \/ ApplyGetCrcAgain
    \/ ApplyGetCrcEncoded
    \/ ApplyFullCommand
    \/ ApplyExtract
    \/ ApplyProcess
    \/ ApplyGeneralStatus
    \/ ApplyRatedInformation
    \/ ApplyWrite
    \/ ApplyReadUntil

SpecPure == InitPure /\ [][NextPure]_vars

(***************************************************************************)
(* Properties of _get_crc.                                                 *)
(***************************************************************************)
Escaped == {LPAREN, CR, LF}

CrcApplied == fn \in {"crc", "crc_again", "crc_encoded"}

\* C12: neither of the two bytes _get_crc returns is 0x28, 0x0D or 0x0A, and
\* both are in 0..255; the last step of _get_crc maps every byte value to
\* such a byte.
C12_ChecksumAvoidsFramingBytes ==
    CrcApplied =>
        /\ Len(out) = 2
        /\ \A i \in 1..2 : out[i] \in 0..255 /\ out[i] \notin Escaped
        /\ \A b \in 0..255 : CrcEscape(b) \in (0..255) \ Escaped

\* C12 witness: the checksum of an input whose register holds 0x28 in the
\* high byte and 0x0D in the low byte
C12_Witness ==
    /\ CrcApplied
    /\ CrcRegister(ByteArray(arg)) = 40 * 256 + 13
    /\ out = <<41, 14>>

\* CRC-16/XMODEM by its definition: the remainder of the message polynomial
\* times x^16 on division by x^16 + x^12 + x^5 + 1 over GF(2), most
\* significant bit first, starting from 0.  A polynomial is the set of the
\* degrees of its terms.
XmodemPoly == {16, 12, 5, 0}

SymDiff(A, B) == (A \ B) \cup (B \ A)

XmodemShiftIn(rem, bit) ==
    LET t == SymDiff({e + 1 : e \in rem}, IF bit = 1 THEN {16} ELSE {})
    IN  IF 16 \in t THEN SymDiff(t, XmodemPoly) ELSE t

\* bit number i (1..8*Len(da)) of the message, most significant bit of each
\* byte first
MessageBit(da, i) == (da[((i - 1) \div 8) + 1] \div (2 ^ (7 - ((i - 1) % 8)))) % 2

RECURSIVE XmodemRemainder(_, _, _)
XmodemRemainder(rem, da, i) ==
    IF i > 8 * Len(da) THEN rem
    ELSE XmodemRemainder(
             CHOOSE r \in {XmodemShiftIn(x, MessageBit(da, i)) : x \in {rem}} : TRUE,
             da, i + 1)

RECURSIVE PolyValue(_)
PolyValue(P) ==
    IF P = {} THEN 0
    ELSE LET e == CHOOSE d \in P : TRUE
         IN  (2 ^ e) + PolyValue(P \ {e})

Xmodem(da) ==
    CHOOSE v \in {PolyValue(p) : p \in {XmodemRemainder({}, da, 1)}} : TRUE

PlusOneIfEscaped(b) == IF b = 40 \/ b = 13 \/ b = 10 THEN b + 1 ELSE b

\* C13: the checksum is the CRC-16/XMODEM register of the input, high byte
\* then low byte, each of the two bytes replaced by its value plus one when
\* it is 0x28, 0x0D or 0x0A, whatever the other byte is.
C13_ChecksumIsXmodem ==
    CrcApplied =>
        LET x == Xmodem(ByteArray(arg))
        IN  /\ x \in 0..65535
            /\ out = <<PlusOneIfEscaped(x \div 256), PlusOneIfEscaped(x % 256)>>

\* C13 witness: only the low byte of the register of POP02, 0xE20A, is
\* replaced
C13_Witness ==
    /\ CrcApplied
    /\ arg = Str(CmdPOP02)
    /\ Xmodem(CmdPOP02) = 226 * 256 + 10
    /\ out = <<226, 11>>

(***************************************************************************)
(* Properties of the frames send_command builds.                           *)
(***************************************************************************)
RECURSIVE Concat(_)
Concat(chunks) ==
    IF chunks = <<>> THEN <<>>
    ELSE Head(chunks).data \o Concat(Tail(chunks))

\* C14: a frame built by send_command is the command bytes, 2 checksum bytes
\* and one CR, and is what write puts on the wire; the checksum recomputed
\* over the bytes before the 2 bytes that precede the CR is those 2 bytes,
\* escaped or not; the standard split of the frame without its CR is
\* accepted.
C14_FrameRoundTrip ==
    fn = "frame" =>
        LET cmd == Utf8Encode(arg.value)
            n   == Len(out)
        IN  /\ n = Len(cmd) + 3
            /\ Take(out, Len(cmd)) = cmd
            /\ out[n] = CR
            /\ \A e \in BOOLEAN : Concat(write(e, out, 0).sent) = out
            /\ get_crc(Take(out, n - 3)) = SubSeq(out, n - 2, n - 1)
            /\ Len(cmd) >= 1 =>
                   Extract(StripCR(out)) =
                       [raw |-> cmd, path |-> "standard", crcs |-> 1]

\* C14 witness: the frame of POP02, whose low checksum byte 0x0A went out as
\* 0x0B
C14_Witness ==
    /\ fn = "frame"
    /\ arg = Str(CmdPOP02)
    /\ out = <<80, 79, 80, 48, 50, 226, 11, 13>>

C16_RecoversExactData ==
    fn = "extract" => out.raw = arg.data

\* the response of the attempt is neither empty nor an acknowledgement, its
\* standard split does not check and the smart scan finds nothing
Unrecovered(r) ==
    /\ r # NotRead
    /\ r # <<>>
    /\ ~IsAck(StripCR(r))
    /\ ~IsNak(StripCR(r))
    /\ Extract(StripCR(r)).path = "fallback"

\* C17: an attempt whose response has a checksum mismatch that the smart
\* scan cannot recover returns, on that attempt, the cleaned text of the
\* response without its last 2 bytes; it neither fails nor is retried.
C17_MismatchFallsBack ==
    \A c \in Callers :
        (pc[c] \in AttemptOver /\ Unrecovered(response[c])) =>
            LET r == StripCR(response[c])
            IN  /\ pc[c] \in {"finally", "unlock"}
                /\ pending[c].kind = "return"
                /\ pending[c].text = Decode(Take(r, Len(r) - 2))
                /\ history[c][Len(history[c])] = "payload"
                /\ Len(history[c]) = attempt[c] + 1

\* C17 witness: the first attempt read (B with a wrong checksum and the call
\* is about to return B
C17_Witness ==
    \E c \in Callers :
        /\ pc[c] = "unlock"
        /\ attempt[c] = 0
        /\ response[c] = ModeB \o <<1, 2, CR>>
        /\ Unrecovered(response[c])
        /\ pending[c] = Returned(<<66>>, "fallback", 3)

\* C18: what read_until hands to send_command holds no byte after its first
\* CR: a CR, if there is one, is the last byte.
C18_NothingAfterFirstCR ==
    \A c \in Callers :
        response[c] # NotRead =>
            \A i \in 1..(Len(response[c]) - 1) : response[c][i] # CR

\* C19: a text send_command returns holds no NUL, neither begins nor ends
\* with whitespace, and is what follows the first ( of the decoded response
\* when there is one.
C19_PayloadIsClean ==
    (fn = "process" /\ out.kind = "return") =>
        LET text    == out.text
            decoded == Strip(RemoveAll(DecodeLatin1(arg.data), NUL))
        IN  /\ ~Contains(text, NUL)
            /\ text # <<>> =>
                   /\ text[1] \notin Whitespace
                   /\ text[Len(text)] \notin Whitespace
            /\ Contains(decoded, LPAREN) =>
                   \E i \in 1..Len(decoded) :
                       /\ decoded[i] = LPAREN
                       /\ \A j \in 1..(i - 1) : decoded[j] # LPAREN
                       /\ text = Drop(decoded, i)

(***************************************************************************)
(* Properties of get_general_status.                                       *)
(***************************************************************************)
BaseKeys == {BaseFields[i].key : i \in 1..Len(BaseFields)}

\* C20: for a QPIGS payload of 17, 18 or 19 well-formed fields,
\* get_general_status returns the 17 base fields decoded from the indices 0
\* to 16 and no pv_charging_power.
C20_BaseFieldsWithoutExtended ==
    (fn = "status" /\ arg.n \in 17..19 /\ arg.bad = 0) =>
        /\ DOMAIN out = BaseKeys
        /\ out["grid_voltage"] = <<0, 1>>
        /\ out["battery_capacity"] = 80
        /\ out["status_binary"] = <<48, 48, 49, 49, 48, 49, 49, 48>>

Raises(result) == "exception" \in DOMAIN result

\* C21: for a QPIGS payload of fewer than 16 fields, the empty payload
\* included, get_general_status returns the empty mapping and does not
\* raise.
C21_ShortPayloadGivesEmpty ==
    (fn = "status" /\ Len(split(arg.value)) < 16) =>
        /\ ~Raises(out)
        /\ out = EmptyMapping

\* C21 witness: the payload of 10 well-formed fields
C21_Witness ==
    /\ fn = "status"
    /\ arg = Payload(10, 0)
    /\ Len(split(arg.value)) = 10
    /\ out = EmptyMapping

\* C22: the mapping get_general_status returns is empty or holds all 17 base
\* keys, whatever the number of fields and whichever field fails to convert.
C22_EmptyOrAllBaseKeys ==
    (fn = "status" /\ ~Raises(out)) =>
        \/ out = EmptyMapping
        \/ BaseKeys \subseteq DOMAIN out

\* C22 witness: 21 fields of which the one at index 4 does not convert, and
\* the empty mapping
C22_Witness ==
    /\ fn = "status"
    /\ arg = Payload(21, 5)
    /\ general_status_try(split(arg.value)).exc = "ValueError"
    /\ out = EmptyMapping

\* C23: get_general_status and get_rated_information return a mapping and
\* never raise, for any number of fields (16 for QPIGS included) and for
\* fields that are not numbers.
C23_DecodersNeverRaise ==
    fn \in {"status", "rated"} => ~Raises(out)

\* C23 witness: the QPIGS payload of exactly 16 fields, whose try block ends
\* with IndexError at the status field
C23_Witness ==
    /\ fn = "status"
    /\ arg = Payload(16, 0)
    /\ general_status_try(split(arg.value)).exc = "IndexError"
    /\ out = EmptyMapping

(***************************************************************************)
(* Properties of get_rated_information.                                    *)
(***************************************************************************)
\* the entry of RatedFields with the key k
RatedEntry(k) ==
    RatedFields[CHOOSE i \in 1..Len(RatedFields) : RatedFields[i].key = k]

\* C24: get_rated_information returns the empty mapping for a QPIRI payload
\* of fewer than 17 fields; for 17 or more well-formed fields every key it
\* returns has its index within the payload and the value of that field,
\* and charger_source_priority is there exactly when there are 18 or more
\* fields.
C24_RatedKeysFollowFields ==
    fn = "rated" =>
        LET parts == split(arg.value)
        IN  /\ Len(parts) < 17 => out = EmptyMapping
            /\ (Len(parts) >= 17 /\ arg.bad = 0) =>
                   /\ \A k \in DOMAIN out :
                          /\ k \in {RatedFields[i].key : i \in 1..Len(RatedFields)}
                          /\ RatedEntry(k).index < Len(parts)
                          /\ out[k] = Convert(RatedEntry(k).conv,
                                              parts[RatedEntry(k).index + 1]).value
                   /\ ("charger_source_priority" \in DOMAIN out)
                          <=> Len(parts) >= 18

\* C24 witness: 17 well-formed fields give a mapping without
\* charger_source_priority
C24_Witness ==
    /\ fn = "rated"
    /\ arg = RatedPayload(17, 0)
    /\ out # EmptyMapping
    /\ "output_source_priority" \in DOMAIN out
    /\ "charger_source_priority" \notin DOMAIN out

(***************************************************************************)
(* Properties of the methods that wrap send_command.                       *)
(***************************************************************************)
\* C25: get_warnings never raises: when send_command has failed after its
\* retries get_warnings returns the empty text, and when send_command has
\* returned a payload get_warnings returns that payload unchanged.
C25_WarningsNeverRaise ==
    \A c \in Callers :
        (pc[c] = "done" /\ api[c].method = "get_warnings") =>
            /\ api[c].sent = <<CmdQPIWS>>
            /\ api[c].result.kind = "return"
            /\ api[c].returned.kind = "raise" => api[c].result.value = <<>>
            /\ api[c].returned.kind = "return" =>
                   api[c].result.value = api[c].returned.text

\* C25 witness: send_command gave up with no response and get_warnings
\* returned the empty text
C25_Witness ==
    \E c \in Callers :
        /\ pc[c] = "done"
        /\ api[c].method = "get_warnings"
        /\ api[c].returned = Raised("NoResponse")
        /\ api[c].result = MethodReturned(<<>>)

\* C26: a setter sends exactly one command and returns true exactly when
\* the result of send_command for it is the text ACK, and false for every
\* other payload send_command returns.
C26_SetterTrueOnlyOnAck ==
    \A c \in Callers :
        (/\ pc[c] = "done"
         /\ api[c].method \in Setters \cup {"set_ac_input_range"}
         /\ api[c].returned.kind = "return") =>
            /\ Len(api[c].sent) = 1
            /\ api[c].result.kind = "return"
            /\ api[c].result.value = (api[c].returned.text = ACK)

(***************************************************************************)
(* Properties of a handle that has seen failures.                          *)
(***************************************************************************)
\* replies of a transport that behaves: an acknowledgement, or a payload
\* with its checksum and CR
GoodReplies == AckResponses \cup {Framed(ModeB), Framed(Flags)}

\* the text send_command makes of a good reply
ExpectedText(r) ==
    IF r \in AckResponses THEN ACK ELSE Drop(Take(r, Len(r) - 3), 1)

\* C27: the handle keeps no failure state: after send_command calls that
\* failed, a call whose transport behaves makes a normal first attempt (the
\* frame written once, the reply read and interpreted) and returns the
\* text of the reply; it is not refused, skipped or shortened.
C27_NoFailureState ==
    \A c \in Callers :
        (/\ failed > 0
         /\ pc[c] \in {"finally", "unlock"}
         /\ Len(history[c]) = 1
         /\ response[c] \in GoodReplies) =>
            /\ attempt[c] = 0
            /\ written[c] = 1
            /\ pending[c] # NoOutcome
            /\ pending[c].kind = "return"
            /\ pending[c].text = ExpectedText(response[c])

\* C27 witness: after a failed call, a call is about to return the payload
\* of its first attempt
C27_Witness ==
    \E c \in Callers :
        /\ failed > 0
        /\ pc[c] = "unlock"
        /\ response[c] = Framed(ModeB)
        /\ history[c] = <<"payload">>
        /\ pending[c].text = <<66>>

\* C28: every send_command call ends, by a return or by an exception, and a
\* thread that is not in a call does not hold the lock, so that a thread
\* waiting for the lock gets it and ends as well.
C28_EveryCallEnds ==
    /\ [](\A c \in Callers : pc[c] = "idle" => lock # c)
    /\ \A c \in Callers : (pc[c] # "idle") ~> (pc[c] = "idle" /\ lock # c)

\* C28 witness: a call has ended with an exception, the lock is free and
\* another thread is waiting for it
C28_Witness ==
    \E c, d \in Callers :
        /\ failed > 0
        /\ pc[c] = "idle"
        /\ lock = NoCaller
        /\ pc[d] = "lock"

(***************************************************************************)
(* Properties of the checksum split.                                       *)
(***************************************************************************)
\* the bytes the split works on: the reply without its CR, or the garbled
\* response as it is
SplitInput == IF fn = "split" THEN StripCR(arg.value) ELSE arg.value

\* the prefix of length i of r has its checksum in the 2 bytes after it
ChecksumFollows(r, i) == get_crc(Take(r, i)) = SubSeq(r, i + 1, i + 2)

\* C29: for a response of more than 2 bytes that is no ACK or NAK and whose
\* last 2 bytes are the checksum of the bytes before them, the payload
\* bytes are all bytes but the last 2 and the smart scan does not run: the
\* checksum is computed once.
C29_StandardSplitFirst ==
    (/\ fn \in {"split", "extract"}
     /\ Len(SplitInput) > 2
     /\ ~IsAck(SplitInput)
     /\ ~IsNak(SplitInput)
     /\ ChecksumFollows(SplitInput, Len(SplitInput) - 2)) =>
        /\ out.raw = Take(SplitInput, Len(SplitInput) - 2)
        /\ out.path = "standard"
        /\ out.crcs = 1

\* C29 witness: the reply (B with its checksum is split into (B and the
\* checksum
C29_Witness ==
    /\ fn = "split"
    /\ arg = Reply(ModeB)
    /\ ChecksumFollows(SplitInput, 2)
    /\ out = [raw |-> ModeB, path |-> "standard", crcs |-> 1]

\* C30: what the smart scan accepts is a prefix of the response of length 1
\* to total-2, made of allowed characters only, whose checksum is in the 2
\* bytes that follow it, and no longer prefix is like that.
C30_ScanAcceptsLongestCandidate ==
    (fn \in {"split", "extract"} /\ out.path = "smart") =>
        LET r == SplitInput
            i == Len(out.raw)
        IN  /\ i \in 1..(Len(r) - 2)
            /\ out.raw = Take(r, i)
            /\ \A k \in 1..i : out.raw[k] \in valid_chars
            /\ ChecksumFollows(r, i)
            /\ \A j \in (i + 1)..(Len(r) - 2) :
                   ~(/\ \A k \in 1..j : r[k] \in valid_chars
                     /\ ChecksumFollows(r, j))

\* C30 witness: from (B, its checksum and the byte 0xFF the scan accepts (B
C30_Witness ==
    /\ fn = "extract"
    /\ arg = Garbled(ModeB, <<255>>)
    /\ out.path = "smart"
    /\ out.raw = ModeB

(***************************************************************************)
(* Properties of the transport inside send_command.                        *)
(***************************************************************************)
\* what one step may do to the place of thread c in its attempt: the write
\* comes after the acquisition of this attempt, the read after the write,
\* the release after the write or the read, the interpretation after the
\* release; bytes go out and come in only over a claimed interface
InOrder(c) ==
    /\ (pc'[c] = "write" /\ pc[c] # "write") => pc[c] = "enter"
    /\ (pc'[c] = "read" /\ pc[c] # "read") => pc[c] = "write"
    /\ (pc'[c] = "exit" /\ pc[c] # "exit") => pc[c] \in {"write", "read"}
    /\ (pc'[c] = "process" /\ pc[c] # "process") => pc[c] = "exit"
    /\ (wire'[c] # wire[c] /\ wire'[c] # <<>>) =>
           (pc[c] = "write" /\ ser[c].claimed)
    /\ (response'[c] # response[c] /\ response'[c] # NotRead) =>
           (pc[c] = "read" /\ ser[c].claimed)
    /\ (pending'[c] # pending[c] /\ pending'[c].kind = "return") =>
           (pc[c] = "process" /\ ~ser[c].claimed)

\* C31: in one attempt the transport is acquired, written to, read from and
\* released in this order, and the response is interpreted after the
\* release; nothing is written or read while the attempt does not hold the
\* interface, and a retry acquires the interface again.
C31_TransportInOrder ==
    /\ [](\A c \in Callers :
              /\ pc[c] \in {"write", "read"} =>
                     (lock = c /\ ser[c].claimed /\ ser[c].ep_in)
              /\ pc[c] = "process" =>
                     (ser[c] = NoConnection /\ response[c] # NotRead))
    /\ [][\A c \in Callers : InOrder(c)]_vars

\* C31 witness: the second attempt of a call has acquired the interface
\* again, written its frame, read and released
C31_Witness ==
    \E c \in Callers :
        /\ attempt[c] = 1
        /\ pc[c] = "process"
        /\ written[c] = 2
        /\ ser[c] = NoConnection
        /\ response[c] = Framed(ModeB)

(***************************************************************************)
(* The exception each failure of an attempt hands to the except clause of  *)
(* send_command (line 306): its class, and who words its message.  A       *)
(* device not found and a missing IN endpoint are ValueErrors built by     *)
(* __enter__; a failed claim (line 47) and a failed transfer of write      *)
(* (line 111, or ep_out.write itself) are the usb.core.USBError of the USB *)
(* stack, passed on as it is; an empty response and a negative             *)
(* acknowledgement are plain Exceptions built by send_command.             *)
(***************************************************************************)
raised_exception(error) ==
    CASE error = "DeviceNotFound"   -> [class |-> "ValueError", message |-> "Device not found"]
      [] error = "NoInEndpoint"     -> [class |-> "ValueError", message |-> "Could not find IN endpoint"]
      [] error = "ClaimFailed"      -> [class |-> "USBError", message |-> "from the USB stack"]
      [] error = "ConfigUnreadable" -> [class |-> "USBError", message |-> "from the USB stack"]
      [] error = "WriteFailed"      -> [class |-> "USBError", message |-> "from the USB stack"]
      [] error = "NoResponse"       -> [class |-> "Exception", message |-> "No response from inverter"]
      [] error = "NotSupported"     -> [class |-> "Exception", message |-> "Command not supported"]

TransportFailures == {"DeviceNotFound", "ClaimFailed", "WriteFailed", "NoResponse"}

\* the attempt of c has just ended with the failure `error`
EndedWith(c, error) ==
    /\ pc[c] = "except"
    /\ pending[c] = Raised(error)

\* the ended attempt is one of the rounds of the retry loop: it is in the
\* history of the call, and the loop has no more than RetryBudget rounds
CountedAgainstBudget(c) ==
    /\ Len(history[c]) = attempt[c] + 1
    /\ history[c][attempt[c] + 1] \in {"fail", "empty"}
    /\ attempt[c] < RetryBudget

\* C32: a device not found, a failed interface claim, a failed write and an
\* empty response each end the attempt with a failure that is counted
\* against the retry budget and whose kind differs from the kinds of the
\* other three; a failed detach of the kernel driver and a failed
\* set_configuration do not end the attempt: the only failures that leave
\* __enter__ are the four it raises
C32_DistinctFailureKinds ==
    /\ [](\A c \in Callers : \A error \in TransportFailures :
              EndedWith(c, error) =>
                  /\ CountedAgainstBudget(c)
                  /\ \A other \in TransportFailures \ {error} :
                         raised_exception(other) # raised_exception(error))
    /\ [][\A c \in Callers :
              (pc[c] = "enter" /\ pc'[c] = "except") =>
                  pending'[c].error \in
                      {"DeviceNotFound", "ClaimFailed", "ConfigUnreadable",
                       "NoInEndpoint"}]_vars

\* the parts of C32 that do not compare the kinds
C32_EndsAndCounts ==
    \A c \in Callers : \A error \in TransportFailures :
        EndedWith(c, error) => CountedAgainstBudget(c)

C32_WriteFailureAfterEmpty ==
    \E c \in Callers : EndedWith(c, "WriteFailed") /\ attempt[c] = 1
                       /\ history[c][1] = "empty"

(***************************************************************************)
(* Properties of USBConnection.write and USBConnection.read_until          *)
(***************************************************************************)
IsPrefix(p, s) == Len(p) <= Len(s) /\ Take(s, Len(p)) = p

\* C33: the chunks of one write, in order, make up the frame (a prefix of
\* it when a transfer raises); every chunk but the last of a whole write
\* has exactly 8 bytes and the last has 1 to 8; all chunks of one write go
\* through the interrupt OUT endpoint when one was discovered and through
\* SET_REPORT control transfers otherwise
C33_WriteChunks ==
    fn = "write" =>
        LET sent == out.sent
            n    == Len(sent)
        IN  /\ out.ok => Concat(sent) = arg.value
            /\ ~out.ok => /\ IsPrefix(Concat(sent), arg.value)
                          /\ Len(Concat(sent)) < Len(arg.value)
            /\ \A i \in 1..n :
                   /\ Len(sent[i].data) \in 1..ChunkSize
                   /\ (i < n \/ ~out.ok) => Len(sent[i].data) = ChunkSize
                   /\ sent[i].via = IF arg.type = "frame_out"
                                    THEN "interrupt" ELSE "control"

\* a frame of 17 bytes went out whole over control transfers: 8, 8 and 1
C33_Witness ==
    /\ fn = "write"
    /\ arg = [type |-> "frame_ctrl", value |-> Frame(17)]
    /\ out.ok
    /\ Len(out.sent) = 3
    /\ Len(out.sent[3].data) = 1
    /\ out.sent[1].via = "control"

\* the bytes the reads of a script delivered, the failed reads left out
RECURSIVE Delivered(_)
Delivered(script) ==
    IF script = <<>> THEN <<>>
    ELSE (IF Head(script).errno = 0 THEN Head(script).data ELSE <<>>)
             \o Delivered(Tail(script))

\* the reads after which the accumulated bytes hold the terminator
Terminated(script) ==
    {k \in 1..Len(script) : Contains(Delivered(Take(script, k)), CR)}

\* C34: read_until hands back bytes whatever the reads of the endpoint do:
\* a read that fails, by timeout or otherwise, adds nothing and the polling
\* goes on; the result is what the reads delivered up to the first read
\* after which the terminator is there, or, when the terminator never
\* comes, everything delivered until the overall timeout (possibly nothing)
C34_ReadUntilSwallowsErrors ==
    fn = "read" =>
        LET script == Script(arg.value)
            stops  == Terminated(script)
        IN  /\ \A i \in 1..Len(out) : out[i] \in 0..255
            /\ arg.type = "script_no_in" => out = <<>>
            /\ (arg.type = "script" /\ stops = {}) => out = Delivered(script)
            /\ (arg.type = "script" /\ stops # {}) =>
                   \E k \in stops :
                       /\ \A j \in stops : k <= j
                       /\ out = Delivered(Take(script, k))

\* a timeout, then a USB error, then the data with the terminator in it
C34_Witness ==
    /\ fn = "read"
    /\ arg.type = "script"
    /\ Script(arg.value) = <<UsbTimeout, UsbIoError, Data(<<66, CR>>)>>
    /\ out = <<66, CR>>

\* the overall timeout ends a read that got some bytes but no terminator
C34_WitnessTimeout ==
    /\ fn = "read"
    /\ arg.type = "script"
    /\ Script(arg.value) = <<Data(<<65>>), UsbIoError, UsbTimeout>>
    /\ out = <<65>>

(***************************************************************************)
(* The timestamp of the handle and the lock.                               *)
(***************************************************************************)
\* the places of send_command that touch self._last_command_time: line 189
\* reads it, line 316 writes it
ReadsTimestamp(c) == pc[c] = "pace"
WritesTimestamp(c) == pc[c] = "finally"

\* C35: a caller that is about to read or to write the last-command
\* timestamp holds the lock, and every change of the timestamp is made by
\* the holder of the lock, in its finally clause, which keeps the lock
C35_TimestampUnderLock ==
    /\ [](\A c \in Callers :
              (ReadsTimestamp(c) \/ WritesTimestamp(c)) => lock = c)
    /\ [][last_command_time' # last_command_time =>
              \E c \in Callers :
                  /\ lock = c /\ lock' = c
                  /\ WritesTimestamp(c)
                  /\ \A d \in Callers \ {c} :
                         ~ReadsTimestamp(d) /\ ~WritesTimestamp(d)]_vars

\* one caller is about to write the timestamp a second time while the other
\* one waits for the lock
C35_Witness ==
    \E c \in Callers : \E d \in Callers \ {c} :
        /\ WritesTimestamp(c) /\ lock = c
        /\ last_command_time > 0
        /\ last_command_time < now
        /\ pc[d] = "lock"

(***************************************************************************)
(* The extended field of get_general_status.                               *)
(***************************************************************************)
\* C36: for a QPIGS payload of 20 or more well-formed fields,
\* get_general_status returns the 17 base fields and pv_charging_power,
\* whose value is the integer of the field at index 19 (00120 in the
\* payloads drawn here) and of no other field
C36_PvChargingPowerFromIndex19 ==
    (fn = "status" /\ arg.n >= 20 /\ arg.bad = 0) =>
        /\ DOMAIN out = BaseKeys \cup {"pv_charging_power"}
        /\ split(arg.value)[20] = <<48, 48, 49, 50, 48>>
        /\ out["pv_charging_power"] = 120
        /\ out["battery_capacity"] = 80
        /\ out["status_binary"] = <<48, 48, 49, 49, 48, 49, 49, 48>>

\* 21 well-formed fields, the last of them 010
C36_Witness ==
    /\ fn = "status"
    /\ arg = Payload(21, 0)
    /\ split(arg.value)[21] = <<48, 49, 48>>
    /\ out["pv_charging_power"] = 120

(***************************************************************************)
(* The optional fields of get_rated_information.                           *)
(***************************************************************************)
\* the optional field number i is in the payload and converts
RatedParseable(parts, i) ==
    /\ i \in RatedPresent(parts)
    /\ Convert(RatedFields[i].conv, RatedField(parts, i)).ok

\* C37: for a QPIRI payload of 17 or more fields, an optional field is in
\* the mapping get_rated_information returns exactly when that field is in
\* the payload and converts, whatever the other fields are: a field that
\* does not convert takes no other field out of the mapping
C37_OptionalFieldsIndependent ==
    (fn = "rated" /\ Len(split(arg.value)) >= 17) =>
        \A i \in 1..Len(RatedFields) :
            RatedFields[i].key \in DOMAIN out
                <=> RatedParseable(split(arg.value), i)

\* what holds instead: one field that does not convert empties the mapping
C37_OneBadFieldEmptiesAll ==
    (fn = "rated" /\ Len(split(arg.value)) >= 17) =>
        IF \A i \in RatedPresent(split(arg.value)) :
               RatedParseable(split(arg.value), i)
        THEN DOMAIN out =
                 {RatedFields[i].key : i \in RatedPresent(split(arg.value))}
        ELSE out = EmptyMapping

C37_BadCutoffVoltage ==
    /\ fn = "rated"
    /\ arg = RatedPayload(18, 10)
    /\ RatedParseable(split(arg.value), 1)
    /\ ~RatedParseable(split(arg.value), 3)
    /\ out = EmptyMapping

(***************************************************************************)
(* coordinator.py: AxpertDataUpdateCoordinator._io_update, one poll of the *)
(* inverter.  Each method of the handle it calls makes one send_command    *)
(* call; `outcome` is how that call ended: a returned text, the None of a  *)
(* retry loop that ran out, or an exception.                               *)
(***************************************************************************)
MaxPolls == 2

CmdQPIGS == <<81, 80, 73, 71, 83>>
CmdQPIRI == <<81, 80, 73, 82, 73>>
CmdQVFW == <<81, 86, 70, 87>>
CmdQGMN == <<81, 71, 77, 78>>

Answer(text) == Returned(text, "standard", 1)

\* `not x` for a text or None
Falsy(x) == x = None \/ x = <<>>

\* `not data` for a mapping
EmptyData(data) == DOMAIN data = {}

VERFW == <<86, 69, 82, 70, 87, 58>>
Unknown == <<85, 110, 107, 110, 111, 119, 110>>

\* where needle first starts in text, 0 when it is not there
Find(needle, text) ==
    IF ~IsSubstring(needle, text) THEN 0
    ELSE CHOOSE i \in 1..(Len(text) - Len(needle) + 1) :
             /\ SubSeq(text, i, i + Len(needle) - 1) = needle
             /\ \A j \in 1..(i - 1) :
                    SubSeq(text, j, j + Len(needle) - 1) # needle

\* raw.split(sep)[1] for a raw that holds sep
SplitSecond(raw, sep) ==
    LET rest == Drop(raw, Find(sep, raw) + Len(sep) - 1)
        next == Find(sep, rest)
    IN  IF next = 0 THEN rest ELSE Take(rest, next - 1)

\* an exception of send_command, and the TypeError of `"VERFW:" in None`,
\* end in "Unknown"
get_firmware_version(outcome) ==
    IF outcome.kind # "return" THEN Unknown
    ELSE IF IsSubstring(VERFW, outcome.text)
    THEN SplitSecond(outcome.text, VERFW)
    ELSE outcome.text

get_model_id(outcome) ==
    IF outcome.kind = "return" THEN outcome.text ELSE None

\* the mapping of get_model_name has the keys "001" to "045"; the name it
\* holds for the key number n is written <<1000 + n>>, which is no text
ModelNames == 45
ModelName(n) == <<1000 + n>>

get_model_name(outcome) ==
    LET raw == get_model_id(outcome)
    IN  IF Falsy(raw) THEN None
        ELSE LET code == Strip(RemoveAll(raw, LPAREN))
             IN  IF /\ Len(code) = 3
                    /\ AllDigits(code)
                    /\ DecimalValue(code) \in 1..ModelNames
                 THEN ModelName(DecimalValue(code))
                 ELSE code

\* data[key] = value
WithKey(data, key, value) ==
    [k \in DOMAIN data \cup {key} |-> IF k = key THEN value ELSE data[k]]

\* data.update(more)
Updated(data, more) ==
    [k \in DOMAIN data \cup DOMAIN more |->
        IF k \in DOMAIN more THEN more[k] ELSE data[k]]

\* a variant that goes on with whatever get_general_status gave
PollFailsNever(data) == FALSE

\* `if not data: raise UpdateFailed(...)`
PollFails(data) == EmptyData(data)

\* the executor job of _async_update_data starts _io_update
PollStart ==
    /\ coordinator.pc = "idle"
    /\ coordinator.polls < MaxPolls
    /\ coordinator' = [coordinator EXCEPT !.pc = "firmware",
                                          !.polls = @ + 1,
                                          !.sent = <<>>,
                                          !.data = EmptyMapping,
                                          !.result = "none"]
    /\ UNCHANGED sensor
    /\ UNCHANGED <<handleVars, pureVars>>

\* lines 45-46
PollFirmware(outcome) ==
    /\ coordinator.pc = "firmware"
    /\ coordinator' =
           IF Falsy(coordinator.firmware_version)
           THEN [coordinator EXCEPT
                    !.firmware_version = get_firmware_version(outcome),
                    !.sent = Append(@, CmdQVFW),
                    !.pc = "model_id"]
           ELSE [coordinator EXCEPT !.pc = "model_id"]
    /\ UNCHANGED sensor
    /\ UNCHANGED <<handleVars, pureVars>>

\* lines 48-49
PollModelId(outcome) ==
    /\ coordinator.pc = "model_id"
    /\ coordinator' =
           IF Falsy(coordinator.model_id)
           THEN [coordinator EXCEPT !.model_id = get_model_id(outcome),
                                    !.sent = Append(@, CmdQGMN),
                                    !.pc = "model_name"]
           ELSE [coordinator EXCEPT !.pc = "model_name"]
    /\ UNCHANGED sensor
    /\ UNCHANGED <<handleVars, pureVars>>

\* lines 51-52: get_model_name calls get_model_id, one more QGMN
PollModelName(outcome) ==
    /\ coordinator.pc = "model_name"
    /\ coordinator' =
           IF Falsy(coordinator.model_name)
           THEN [coordinator EXCEPT !.model_name = get_model_name(outcome),
                                    !.sent = Append(@, CmdQGMN),
                                    !.pc = "status"]
           ELSE [coordinator EXCEPT !.pc = "status"]
    /\ UNCHANGED sensor
    /\ UNCHANGED <<handleVars, pureVars>>

\* lines 54-56: get_general_status lets an exception of send_command
\* through and turns None into the empty mapping
PollStatus(outcome) ==
    /\ coordinator.pc = "status"
    /\ IF outcome.kind = "raise"
       THEN coordinator' = [coordinator EXCEPT !.sent = Append(@, CmdQPIGS),
                                               !.result = "raised",
                                               !.pc = "idle"]
       ELSE \E data \in {IF outcome.kind = "none" THEN EmptyMapping
                         ELSE get_general_status(outcome.text)} :
                IF Raises(data)
                THEN coordinator' =
                         [coordinator EXCEPT !.sent = Append(@, CmdQPIGS),
                                             !.result = "raised",
                                             !.pc = "idle"]
                ELSE IF PollFails(data)
                THEN coordinator' =
                         [coordinator EXCEPT !.sent = Append(@, CmdQPIGS),
                                             !.data = data,
                                             !.result = "UpdateFailed",
                                             !.pc = "idle"]
                ELSE coordinator' =
                         [coordinator EXCEPT !.sent = Append(@, CmdQPIGS),
                                             !.data = data,
                                             !.pc = "warnings"]
    /\ UNCHANGED sensor
    /\ UNCHANGED <<handleVars, pureVars>>

\* lines 59-61
PollWarnings(outcome) ==
    /\ coordinator.pc = "warnings"
    /\ \E warnings \in {get_warnings(outcome).value} :
           coordinator' =
               [coordinator EXCEPT
                   !.sent = Append(@, CmdQPIWS),
                   !.data = IF Falsy(warnings) THEN @
                            ELSE WithKey(@, "warnings", warnings),
                   !.pc = "mode"]
    /\ UNCHANGED sensor
    /\ UNCHANGED <<handleVars, pureVars>>

\* lines 64-66: get_mode is send_command("QMOD"), exceptions included
PollMode(outcome) ==
    /\ coordinator.pc = "mode"
    /\ IF outcome.kind = "raise"
       THEN coordinator' = [coordinator EXCEPT !.sent = Append(@, CmdQMOD),
                                               !.result = "raised",
                                               !.pc = "idle"]
       ELSE \E mode \in {IF outcome.kind = "none" THEN None
                         ELSE outcome.text} :
                coordinator' =
                    [coordinator EXCEPT
                        !.sent = Append(@, CmdQMOD),
                        !.data = IF Falsy(mode) THEN @
                                 ELSE WithKey(@, "mode", mode),
                        !.pc = "rated"]
    /\ UNCHANGED sensor
    /\ UNCHANGED <<handleVars, pureVars>>

\* lines 69-73: get_rated_information lets an exception of send_command
\* through; the poll returns data
PollRated(outcome) ==
    /\ coordinator.pc = "rated"
    /\ IF outcome.kind = "raise"
       THEN coordinator' = [coordinator EXCEPT !.sent = Append(@, CmdQPIRI),
                                               !.result = "raised",
                                               !.pc = "idle"]
       ELSE \E qpiri_data \in {IF outcome.kind = "none" THEN EmptyMapping
                               ELSE get_rated_information(outcome.text)} :
                coordinator' =
                    [coordinator EXCEPT
                        !.sent = Append(@, CmdQPIRI),
                        !.data = IF EmptyData(qpiri_data) THEN @
                                 ELSE Updated(@, qpiri_data),
                        !.result = "data",
                        !.pc = "idle"]
    /\ UNCHANGED sensor
    /\ UNCHANGED <<handleVars, pureVars>>

\* how send_command can end for each command of a poll
Failure == Raised("NoResponse")

FirmwareOutcomes ==
    {Answer(VERFW \o <<48, 48, 48, 53, 50, 46, 51, 48>>), Answer(<<>>), Failure}

ModelOutcomes == {Answer(<<48, 48, 49>>), Answer(<<LPAREN>>), NoOutcome}

StatusOutcomes ==
    {Answer(Payload(21, 0).value), Answer(Payload(20, 0).value),
     Answer(Payload(17, 0).value), Answer(Payload(10, 0).value),
     Answer(Payload(21, 5).value), Answer(<<>>), NoOutcome, Failure}

WarningsOutcomes == {Answer(<<48, 49, 48, 48>>), Answer(<<>>), NoOutcome, Failure}

ModeOutcomes == {Answer(<<66>>), Answer(<<>>), NoOutcome, Failure}

RatedOutcomes ==
    {Answer(RatedPayload(21, 0).value), Answer(RatedPayload(18, 10).value),
     Answer(RatedPayload(10, 0).value), NoOutcome, Failure}

NextPoll ==
    \/ PollStart
    \/ \E outcome \in FirmwareOutcomes : PollFirmware(outcome)
    \/ \E outcome \in ModelOutcomes : PollModelId(outcome)
    \/ \E outcome \in ModelOutcomes : PollModelName(outcome)
    \/ \E outcome \in StatusOutcomes : PollStatus(outcome)
    \/ \E outcome \in WarningsOutcomes : PollWarnings(outcome)
    \/ \E outcome \in ModeOutcomes : PollMode(outcome)
    \/ \E outcome \in RatedOutcomes : PollRated(outcome)

SpecPoll == Init /\ [][NextPoll]_vars

(***************************************************************************)
(* Properties of a coordinator poll.                                       *)
(***************************************************************************)
StatusOrder == <<CmdQPIGS, CmdQPIWS, CmdQMOD, CmdQPIRI>>

\* the status commands the running poll has sent, in the order it sent them
StatusSent ==
    SelectSeq(coordinator.sent,
              LAMBDA cmd : \E i \in 1..Len(StatusOrder) : StatusOrder[i] = cmd)

\* C38: the status commands of one poll go out in the order QPIGS, QPIWS,
\* QMOD, QPIRI; a poll whose get_general_status gave the empty mapping ends
\* with UpdateFailed after QPIGS, with none of QPIWS, QMOD and QPIRI sent;
\* the data a successful poll returns holds all 17 base status keys
C38_PollOrderAndBaseKeys ==
    /\ IsPrefix(StatusSent, StatusOrder)
    /\ Len(StatusSent) >= 1 =>
           \/ coordinator.result = "raised" /\ StatusSent = <<CmdQPIGS>>
           \/ IF EmptyData(coordinator.data)
              THEN /\ coordinator.result = "UpdateFailed"
                   /\ StatusSent = <<CmdQPIGS>>
              ELSE /\ coordinator.result # "UpdateFailed"
                   /\ BaseKeys \subseteq DOMAIN coordinator.data
    /\ coordinator.result = "data" =>
           /\ StatusSent = StatusOrder
           /\ BaseKeys \subseteq DOMAIN coordinator.data

\* a second poll that sent all four and returned the base keys, the mode and
\* the rated information, without asking for the firmware version again
C38_Witness ==
    /\ coordinator.polls = 2
    /\ coordinator.result = "data"
    /\ coordinator.sent = StatusOrder
    /\ BaseKeys \cup {"mode", "warnings", "battery_type"}
           \subseteq DOMAIN coordinator.data

\* a poll that failed with UpdateFailed on a payload of 17 fields
C38_WitnessFailed ==
    /\ coordinator.result = "UpdateFailed"
    /\ coordinator.pc = "idle"
    /\ StatusSent = <<CmdQPIGS>>
    /\ EmptyData(coordinator.data)

(***************************************************************************)
(* sensor.py: AxpertEnergySensor, which integrates a power over the time   *)
(* between coordinator updates.  Powers are whole watts, times whole       *)
(* seconds, and the energy is counted in half watt-seconds, so that        *)
(* float(), the division by 2 and the scaling to kWh lose nothing.         *)
(***************************************************************************)
MaxUpdates == 3

MAX_INTEGRATION_INTERVAL == 300

SourceKeys == {"pv_power", "ac_output_active_power"}

\* data.get(key, default)
Get(data, key, default) ==
    IF key \in DOMAIN data THEN data[key] ELSE default

\* lines 157-167: the power the sensor integrates
current_power(source_key, data) ==
    IF source_key = "pv_power"
    THEN IF "pv_charging_power" \in DOMAIN data
         THEN data["pv_charging_power"]
         ELSE Get(data, "pv_input_voltage", 0)
                  * Get(data, "pv_input_current", 0)
    ELSE Get(data, source_key, 0)

\* a variant that adds whatever the trapezoid gives
AddsEnergyAlways(added_energy) == TRUE

\* `if added_energy_kwh > 0`
AddsEnergy(added_energy) == added_energy > 0

\* async_added_to_hass: the restored state, if there is one, becomes the
\* accumulated value (0.0 when it is no number), and the reference time is
\* set; the entity gets coordinator updates from here on
AddedToHass(restored) ==
    /\ ~sensor.added
    /\ sensor' = [sensor EXCEPT
                     !.added = TRUE,
                     !.state = IF restored.kind = "number" THEN restored.value
                               ELSE IF restored.kind = "text" THEN 0
                               ELSE @,
                     !.last_update_time = <<sensor.clock>>]
    /\ UNCHANGED coordinator
    /\ UNCHANGED <<handleVars, pureVars>>

\* _handle_coordinator_update, called with coordinator.data = data when
\* the clock has gone on by `elapsed` seconds since the latest event
HandleCoordinatorUpdate(data, elapsed) ==
    /\ sensor.added
    /\ sensor.updates < MaxUpdates
    /\ \E utcnow \in {sensor.clock + elapsed},
          power \in {current_power(sensor.source_key, data)} :
           IF sensor.last_update_time = <<>> \/ sensor.last_power = <<>>
           THEN sensor' = [sensor EXCEPT !.last_update_time = <<utcnow>>,
                                         !.last_power = <<power>>,
                                         !.time_diff_seconds = <<>>,
                                         !.clock = utcnow,
                                         !.data = data,
                                         !.updates = @ + 1]
           ELSE \E diff \in {utcnow - sensor.last_update_time[1]} :
                    IF diff > MAX_INTEGRATION_INTERVAL
                    THEN sensor' = [sensor EXCEPT
                                       !.last_update_time = <<utcnow>>,
                                       !.last_power = <<power>>,
                                       !.time_diff_seconds = <<diff>>,
                                       !.clock = utcnow,
                                       !.data = data,
                                       !.updates = @ + 1]
                    ELSE \E added_energy \in
                                {(sensor.last_power[1] + power) * diff} :
                             sensor' = [sensor EXCEPT
                                 !.state = IF AddsEnergy(added_energy)
                                           THEN @ + added_energy ELSE @,
                                 !.last_update_time = <<utcnow>>,
                                 !.last_power = <<power>>,
                                 !.time_diff_seconds = <<diff>>,
                                 !.clock = utcnow,
                                 !.data = data,
                                 !.updates = @ + 1]
    /\ UNCHANGED coordinator
    /\ UNCHANGED <<handleVars, pureVars>>

\* what the restore gives: nothing, a number, or a text that is no number
RestoredStates ==
    {[kind |-> "none", value |-> 0], [kind |-> "number", value |-> 7200],
     [kind |-> "text", value |-> 0]}

\* the data of an update: the extended status, a status without
\* pv_charging_power, a feed-back reading below zero, and no reading
UpdateData ==
    {[k \in {"pv_charging_power", "ac_output_active_power"} |->
         IF k = "pv_charging_power" THEN 120 ELSE 46],
     [k \in {"pv_input_voltage", "pv_input_current", "ac_output_active_power"} |->
         IF k = "pv_input_voltage" THEN 90
         ELSE IF k = "pv_input_current" THEN 2 ELSE 400],
     [k \in {"pv_charging_power", "ac_output_active_power"} |->
         IF k = "pv_charging_power" THEN -60 ELSE -500],
     EmptyMapping}

\* seconds between two events; the wall clock can be set back
Elapsed == {-5, 0, 5, 300, 301}

InitEnergy ==
    /\ InitHandle
    /\ fn = "none"
    /\ arg = NoArg
    /\ out = NoResult
    /\ again = NoResult
    /\ coordinator = InitCoordinator
    /\ sensor \in {InitSensor(k) : k \in SourceKeys}

NextEnergy ==
    \/ \E restored \in RestoredStates : AddedToHass(restored)
    \/ \E data \in UpdateData, elapsed \in Elapsed :
           HandleCoordinatorUpdate(data, elapsed)

SpecEnergy == InitEnergy /\ [][NextEnergy]_vars

(***************************************************************************)
(* Properties of the energy sensor.                                        *)
(***************************************************************************)
\* the step is a coordinator update
IsUpdate == sensor'.updates = sensor.updates + 1

\* C39: no coordinator update makes the accumulated value smaller, and an
\* update that comes more than 300 seconds after the reference time adds
\* nothing: it leaves the accumulated value as it is and sets the
\* reference time and the reference power to the current ones
C39_EnergyNeverDecreases ==
    [][IsUpdate =>
          /\ sensor'.state >= sensor.state
          /\ sensor'.last_update_time = <<sensor'.clock>>
          /\ (/\ sensor.last_update_time # <<>>
              /\ sensor'.clock - sensor.last_update_time[1]
                     > MAX_INTEGRATION_INTERVAL) =>
                 /\ sensor'.state = sensor.state
                 /\ sensor'.last_power =
                        <<current_power(sensor.source_key, sensor'.data)>>]_vars

\* the third update came 301 seconds after the second one and left the
\* energy of the first interval, 5 seconds at 120 W, as it was
C39_Witness ==
    /\ sensor.updates = 3
    /\ sensor.source_key = "pv_power"
    /\ sensor.time_diff_seconds = <<301>>
    /\ sensor.state = (120 + 120) * 5
    /\ sensor.last_power = <<180>>

\* energy was added over an interval of exactly 300 seconds
C39_WitnessLongest ==
    /\ sensor.updates = 2
    /\ sensor.time_diff_seconds = <<300>>
    /\ sensor.state = (46 + 400) * 300

====
